---- MODULE Spec2Model ----
(***************************************************************************)
(* Verification model of the diffusionx simulation engine:                 *)
(*   - parallel_generate      (random/utils: thread-per-call generation)   *)
(*   - parallel_monte_carlo   (simulation/basic/utils: parallel averaging) *)
(*   - Moment<T>::raw_moment / central_moment                              *)
(*   - FirstPassageTime<T>::simulate (adaptive doubling search)            *)
(*   - ensemble_tamsd         (ensemble average of per-trajectory TAMSD)   *)
(*   - simulate entry points  (PointProcess, CTRW, BrownianMotion, walk)   *)
(*   - fpt / occupation_time / tamsd / eatamsd of the process classes      *)
(*   - rand_stable            (Chambers-Mallows-Stuck stable sampler)      *)
(*   - FirstPassageTime / OccupationTime constructors (functional module)  *)
(*   - parallel_sample        (random/utils.h: one async task per core)    *)
(*   - BrownianExcursion / BrownianMeander::simulate (rejection sampling)  *)
(* Each component has its own specification over the shared variables.     *)
(***************************************************************************)
EXTENDS Integers, Sequences, FiniteSets, TLC

(* ------------------------------ bounds --------------------------------- *)
\* largest n passed to parallel_generate
MaxN == 4
\* largest value returned by std::thread::hardware_concurrency()
MaxHW == 3
\* largest hardware_concurrency() explored for parallel_monte_carlo
MaxHWMC == 2

VARIABLES
    call,           \* which engine entry point this behaviour executes
    pc,             \* position of the calling thread
    ret,            \* value returned by the call ("none" while running)
    variant,        \* which version of the function in the source tree runs
    hw,             \* std::thread::hardware_concurrency()
    num_threads,    \* local num_threads
    i,              \* index of the spawn loop
    threads,        \* vector<std::thread>: the spawned workers, in order
    joined,         \* number of threads the join loop has joined
    n,              \* parallel_generate: number of values requested
    result,         \* parallel_generate: the output vector; slot j holds the
                    \* sequence of workers that assigned result[j]
    particles,      \* parallel_monte_carlo: number of trials requested
    partial_results,\* vector<double>(num_threads, 0.0)
    success_flags,  \* vector<bool>(num_threads, true)
    errors,         \* vector<optional<Error>>(num_threads)
    written,        \* per worker: the memory locations it has stored to
    trials,         \* number of compute_func / simulate invocations so far
    op,             \* the statistic requested
    order,          \* Moment::m_order
    phase,          \* central_moment: "mean" (nested raw moment) or "main"
    mean,           \* central_moment: the captured mean
    process,        \* first passage: the process the query is built on
    domain,         \* first passage: m_domain = (a, b)
    max_duration,   \* first passage: argument max_duration
    time_step,      \* first passage: argument time_step
    duration,       \* first passage: the trial duration
    t,              \* time marks of the last simulated trajectory
    x,              \* values of the last simulated trajectory
    calls,          \* durations passed to m_process.simulate, in order
    finals,         \* number of simulate calls made after the clamp
    trajectories,   \* ensemble_tamsd: argument trajectories
    lag_time,       \* ensemble_tamsd: argument lag_time
    sum,            \* ensemble_tamsd: local sum
    valid_count,    \* ensemble_tamsd: local valid_count
    it,             \* ensemble_tamsd: position of the range-for loop
    num_step,       \* simulate: local num_step / argument num_steps
    alpha,          \* rand_stable: stability index
    beta,           \* rand_stable: skewness
    sigma,          \* rand_stable: scale
    mu,             \* rand_stable: location
    sampler,        \* rand_stable: the closure handed to parallel_generate
    samples,        \* rand_stable: the draws made so far, in order
    attempt         \* rejection sampling: the loop counter attempt

genVars == <<n, result>>
mcVars == <<particles, partial_results, success_flags, errors, written,
            trials, op, order, phase, mean>>
fptVars == <<process, domain, max_duration, time_step, duration, t, x,
             calls, finals>>
vars == <<call, pc, ret, variant, hw, num_threads, i, threads, joined,
          n, result, particles, partial_results, success_flags, errors,
          written, trials, op, order, phase, mean,
          process, domain, max_duration, time_step, duration, t, x,
          calls, finals, trajectories, lag_time, sum, valid_count, it,
          num_step, alpha, beta, sigma, mu, sampler, samples, attempt>>
tamsdVars == <<trajectories, lag_time, sum, valid_count, it>>
simVars == <<num_step>>
stableVars == <<alpha, beta, sigma, mu, sampler, samples>>
rejectVars == <<attempt>>
otherVars == <<tamsdVars, simVars, stableVars, rejectVars>>
\* otherVars without the named component
otherThanTamsd == <<simVars, stableVars, rejectVars>>
otherThanSim == <<tamsdVars, stableVars, rejectVars>>
otherThanStable == <<tamsdVars, simVars, rejectVars>>
otherThanReject == <<tamsdVars, simVars, stableVars>>
poolVars == <<hw, num_threads, i, threads, joined>>

\* values of the variables of a component that the running call does not use
IdleTamsd ==
    /\ trajectories = <<>> /\ lag_time = 0 /\ sum = <<0, 1>>
    /\ valid_count = 0 /\ it = 0
IdleSim == num_step = 0
IdleStable ==
    /\ alpha = <<1, 1>> /\ beta = 0 /\ sigma = 1 /\ mu = 0
    /\ sampler = "none" /\ samples = <<>>
IdleReject == attempt = 0
IdleOther == IdleTamsd /\ IdleSim /\ IdleStable /\ IdleReject
IdlePool ==
    hw = 0 /\ num_threads = 0 /\ i = 0 /\ threads = <<>> /\ joined = 0
IdleGen == n = 0 /\ result = <<>>
IdleMC ==
    /\ particles = 0 /\ partial_results = <<>> /\ success_flags = <<>>
    /\ errors = <<>> /\ written = <<>> /\ trials = 0 /\ op = "none"
    /\ order = 1 /\ phase = "main" /\ mean = <<0, 1>>
IdleFPT ==
    /\ process = [start |-> 0, const |-> FALSE] /\ domain = <<0, 0>>
    /\ max_duration = 0 /\ time_step = 0 /\ duration = 0
    /\ t = <<>> /\ x = <<>> /\ calls = <<>> /\ finals = 0

Min(a, b) == IF a < b THEN a ELSE b
Max(a, b) == IF a > b THEN a ELSE b

(* ----------------------- worker-count computation ---------------------- *)
\* num_threads = hardware_concurrency(); 0 falls back to 1; capped by count
NumThreads(h, count) ==
    LET base == IF h = 0 THEN 1 ELSE h
    IN  IF count < base THEN count ELSE base

(* ------------------------- range partitioning -------------------------- *)
\* chunk_size = n / num_threads, the last thread takes the remainder
FloorStartOverlap(k, count, nt) ==
    IF k = 0 THEN 0 ELSE k * (count \div nt) - 1
FloorStart(k, count, nt) == k * (count \div nt)
FloorEndNoRemainder(k, count, nt) == k * (count \div nt) + (count \div nt)
FloorEnd(k, count, nt) ==
    LET chunk_size == count \div nt
        remainder == count % nt
        end == k * chunk_size + chunk_size
    IN  IF k = nt - 1 THEN end + remainder ELSE end

\* block_size = ceil(n / num_threads), end clipped to n
CeilStart(k, count, nt) == k * ((count + nt - 1) \div nt)
CeilEndUnclipped(k, count, nt) ==
    k * ((count + nt - 1) \div nt) + ((count + nt - 1) \div nt)
CeilEnd(k, count, nt) ==
    LET block_size == (count + nt - 1) \div nt
    IN  Min(k * block_size + block_size, count)

(* ========================= parallel_generate =========================== *)
GenVariants == {"chunk", "block"}

GenStart(k) == IF variant = "chunk" THEN FloorStart(k, n, num_threads)
               ELSE CeilStart(k, n, num_threads)
GenEnd(k) == IF variant = "chunk" THEN FloorEnd(k, n, num_threads)
             ELSE CeilEnd(k, n, num_threads)

\* the "block" version only creates a thread when its range is non-empty
GenCreatesThread(k) == variant = "chunk" \/ GenStart(k) < GenEnd(k)

\* a worker thread: its captured id/start/end, its loop index j, its local
\* accumulator, the value it holds between a load and a store (tmp), and the
\* error of its failed trial
Worker(id, start, end) ==
    [id |-> id, start |-> start, end |-> end, j |-> start, st |-> "run",
     local_sum |-> <<0, 1>>, tmp |-> <<>>, err |-> "nullopt"]

InitGen ==
    /\ IdleOther
    /\ call = "parallel_generate"
    /\ process = <<>> /\ domain = <<>> /\ max_duration = 0 /\ time_step = 0
    /\ duration = 0 /\ t = <<>> /\ x = <<>> /\ calls = <<>> /\ finals = 0
    /\ particles = 0 /\ partial_results = <<>> /\ success_flags = <<>>
    /\ errors = <<>> /\ written = <<>> /\ trials = 0 /\ op = "generate"
    /\ order = 1 /\ phase = "main" /\ mean = <<0, 1>>
    /\ pc = "start"
    /\ ret = "none"
    /\ variant \in GenVariants
    /\ hw \in 0..MaxHW
    /\ n \in 0..MaxN
    /\ num_threads = 0
    /\ i = 0
    /\ threads = <<>>
    /\ joined = 0
    /\ result = [j \in 0..(n - 1) |-> <<>>]

\* if (n == 0) return result;
GenReturnEmpty ==
    /\ call = "parallel_generate"
    /\ pc = "start"
    /\ n = 0
    /\ pc' = "done"
    /\ ret' = result
    /\ UNCHANGED <<variant, hw, num_threads, i, threads, joined, n, result>>
    /\ UNCHANGED <<call, mcVars, fptVars, otherVars>>

GenSetup ==
    /\ call = "parallel_generate"
    /\ pc = "start"
    /\ n # 0
    /\ num_threads' = NumThreads(hw, n)
    /\ i' = 0
    /\ pc' = "spawn"
    /\ UNCHANGED <<ret, variant, hw, threads, joined, n, result>>
    /\ UNCHANGED <<call, mcVars, fptVars, otherVars>>

\* one iteration of the spawn loop
GenSpawn ==
    /\ call = "parallel_generate"
    /\ pc = "spawn"
    /\ i < num_threads
    /\ threads' = IF GenCreatesThread(i)
                  THEN Append(threads, Worker(i, GenStart(i), GenEnd(i)))
                  ELSE threads
    /\ i' = i + 1
    /\ UNCHANGED <<pc, ret, variant, hw, num_threads, joined, n, result>>
    /\ UNCHANGED <<call, mcVars, fptVars, otherVars>>

GenSpawnEnd ==
    /\ call = "parallel_generate"
    /\ pc = "spawn"
    /\ i >= num_threads
    /\ pc' = "join"
    /\ joined' = 0
    /\ UNCHANGED <<ret, variant, hw, num_threads, i, threads, n, result>>
    /\ UNCHANGED <<call, mcVars, fptVars, otherVars>>

\* result[j] = sampler();  ++j
GenWorkerWrite(k) ==
    /\ call = "parallel_generate"
    /\ k \in 1..Len(threads)
    /\ threads[k].st = "run"
    /\ threads[k].j < threads[k].end
    /\ result' = [result EXCEPT ![threads[k].j] = Append(@, threads[k].id)]
    /\ threads' = [threads EXCEPT ![k].j = @ + 1]
    /\ UNCHANGED <<pc, ret, variant, hw, num_threads, i, joined, n>>
    /\ UNCHANGED <<call, mcVars, fptVars, otherVars>>

\* the worker's loop condition fails and the thread function returns
GenWorkerExit(k) ==
    /\ call = "parallel_generate"
    /\ k \in 1..Len(threads)
    /\ threads[k].st = "run"
    /\ threads[k].j >= threads[k].end
    /\ threads' = [threads EXCEPT ![k].st = "done"]
    /\ UNCHANGED <<pc, ret, variant, hw, num_threads, i, joined, n, result>>
    /\ UNCHANGED <<call, mcVars, fptVars, otherVars>>

\* thread.join() returns only when the thread function has returned
JoinMayReturnLoose(th) == TRUE
JoinMayReturn(th) == th.st = "done"

GenJoin ==
    /\ call = "parallel_generate"
    /\ pc = "join"
    /\ joined < Len(threads)
    /\ JoinMayReturn(threads[joined + 1])
    /\ joined' = joined + 1
    /\ UNCHANGED <<pc, ret, variant, hw, num_threads, i, threads, n, result>>
    /\ UNCHANGED <<call, mcVars, fptVars, otherVars>>

GenReturn ==
    /\ call = "parallel_generate"
    /\ pc = "join"
    /\ joined >= Len(threads)
    /\ pc' = "done"
    /\ ret' = result
    /\ UNCHANGED <<variant, hw, num_threads, i, threads, joined, n, result>>
    /\ UNCHANGED <<call, mcVars, fptVars, otherVars>>

NextGen ==
    \/ GenReturnEmpty
    \/ GenSetup
    \/ GenSpawn
    \/ GenSpawnEnd
    \/ \E k \in 1..Len(threads) : GenWorkerWrite(k)
    \/ \E k \in 1..Len(threads) : GenWorkerExit(k)
    \/ GenJoin
    \/ GenReturn

SpecGen == InitGen /\ [][NextGen]_vars


(* ======================= exact arithmetic on doubles =================== *)
\* A double is modelled by the exact rational <<numerator, denominator>> in
\* lowest terms (rounding is not modelled).
RECURSIVE GCD(_, _)
GCD(a, b) == IF b = 0 THEN a ELSE GCD(b, a % b)
Abs(a) == IF a < 0 THEN -a ELSE a
Rat(a, b) ==
    LET g == GCD(Abs(a), Abs(b))
    IN  IF a = 0 THEN <<0, 1>>
        ELSE IF b < 0 THEN <<(-a) \div g, (-b) \div g>>
        ELSE <<a \div g, b \div g>>
RatAdd(p, q) == Rat(p[1] * q[2] + q[1] * p[2], p[2] * q[2])
RatSub(p, q) == Rat(p[1] * q[2] - q[1] * p[2], p[2] * q[2])
RatMul(p, q) == Rat(p[1] * q[1], p[2] * q[2])
RatDivInt(p, m) == Rat(p[1], p[2] * m)
RECURSIVE RatPow(_, _)
RatPow(p, k) == IF k = 0 THEN <<1, 1>> ELSE RatMul(p, RatPow(p, k - 1))
RECURSIVE RatSum(_, _)
\* total_sum over partial[0..cnt-1]
RatSum(partial, cnt) ==
    IF cnt = 0 THEN <<0, 1>>
    ELSE RatAdd(RatSum(partial, cnt - 1), partial[cnt - 1])

(* ======================== parallel_monte_carlo ========================= *)
\* largest particle count
MaxParticles == 3
\* largest moment order
MaxOrder == 2
\* x.back() of a simulated trajectory ranges over 0..MaxLast
MaxLast == 1

MCVariants == {"result", "plain"}
\* errors a trial (simulate) can return
TrialErrors == {"InvalidArgument", "SimulationFailed"}

Ok(v) == [ok |-> TRUE, val |-> v]
Err(e) == [ok |-> FALSE, err |-> e]

MCStartCeil(k) == CeilStart(k, particles, num_threads)
MCStart(k) == IF variant = "result" THEN FloorStart(k, particles, num_threads)
              ELSE CeilStart(k, particles, num_threads)
MCEnd(k) == IF variant = "result" THEN FloorEnd(k, particles, num_threads)
            ELSE CeilEnd(k, particles, num_threads)

\* compute_func applied to a trajectory whose last value is last
ComputeFunc(last) ==
    IF op = "estimate" THEN <<last, 1>>
    ELSE IF phase = "mean" THEN RatPow(<<last, 1>>, 1)
    ELSE IF op = "raw_moment" THEN RatPow(<<last, 1>>, order)
    ELSE RatPow(RatSub(<<last, 1>>, mean), order)

InitMC ==
    /\ IdleOther
    /\ call = "parallel_monte_carlo"
    /\ process = <<>> /\ domain = <<>> /\ max_duration = 0 /\ time_step = 0
    /\ duration = 0 /\ t = <<>> /\ x = <<>> /\ calls = <<>> /\ finals = 0
    /\ n = 0 /\ result = <<>>
    /\ pc = "start"
    /\ ret = "none"
    /\ variant \in MCVariants
    /\ op \in IF variant = "plain" THEN {"estimate"}
              ELSE {"raw_moment", "central_moment"}
    /\ order \in IF op = "estimate" THEN {1} ELSE 1..MaxOrder
    /\ phase = IF op = "central_moment" THEN "mean" ELSE "main"
    /\ mean = <<0, 1>>
    /\ hw \in 0..MaxHWMC
    /\ particles \in 0..MaxParticles
    /\ num_threads = 0
    /\ i = 0
    /\ threads = <<>>
    /\ joined = 0
    /\ partial_results = <<>>
    /\ success_flags = <<>>
    /\ errors = <<>>
    /\ written = <<>>
    /\ trials = 0

\* if (particles == 0)
NoParticlesNever(p) == p < 0
NoParticles(p) == p = 0

\* if (particles == 0) return Err(InvalidArgument)
MCInvalid ==
    /\ call = "parallel_monte_carlo"
    /\ pc = "start"
    /\ NoParticles(particles)
    /\ pc' = "done"
    /\ ret' = Err("InvalidArgument")
    /\ UNCHANGED <<fptVars, otherVars>>
    /\ UNCHANGED <<call, variant, hw, num_threads, i, threads, joined,
                   genVars, mcVars>>

MCSetup ==
    /\ call = "parallel_monte_carlo"
    /\ pc = "start"
    /\ ~NoParticles(particles)
    /\ num_threads' = NumThreads(hw, particles)
    /\ partial_results' = [k \in 0..(num_threads' - 1) |-> <<0, 1>>]
    /\ success_flags' = IF variant = "result"
                        THEN [k \in 0..(num_threads' - 1) |-> TRUE]
                        ELSE <<>>
    /\ errors' = IF variant = "result"
                 THEN [k \in 0..(num_threads' - 1) |-> "nullopt"]
                 ELSE <<>>
    /\ written' = [k \in 0..(num_threads' - 1) |-> {}]
    /\ threads' = <<>>
    /\ i' = 0
    /\ pc' = "spawn"
    /\ UNCHANGED <<fptVars, otherVars>>
    /\ UNCHANGED <<call, ret, variant, hw, joined, genVars, particles,
                   trials, op, order, phase, mean>>

MCSpawn ==
    /\ call = "parallel_monte_carlo"
    /\ pc = "spawn"
    /\ i < num_threads
    /\ threads' = Append(threads, Worker(i, MCStart(i), MCEnd(i)))
    /\ i' = i + 1
    /\ UNCHANGED <<fptVars, otherVars>>
    /\ UNCHANGED <<call, pc, ret, variant, hw, num_threads, joined, genVars,
                   mcVars>>

MCSpawnEnd ==
    /\ call = "parallel_monte_carlo"
    /\ pc = "spawn"
    /\ i >= num_threads
    /\ pc' = "join"
    /\ joined' = 0
    /\ UNCHANGED <<fptVars, otherVars>>
    /\ UNCHANGED <<call, ret, variant, hw, num_threads, i, threads, genVars,
                   mcVars>>

\* what the worker does after a trial returned an error: with "stop" it
\* stores the flag and the error and returns without running another trial
AfterFailureContinue(w, e) == [w EXCEPT !.j = @ + 1, !.err = e]
AfterFailure(w, e) == [w EXCEPT !.st = "flag", !.tmp = success_flags, !.err = e]

\* a trial that succeeds: local_sum += result.value()
MCTrialOk(k, last) ==
    /\ call = "parallel_monte_carlo"
    /\ k \in 1..Len(threads)
    /\ threads[k].st = "run"
    /\ threads[k].j < threads[k].end
    /\ threads' = [threads EXCEPT ![k].j = @ + 1,
                       ![k].local_sum = RatAdd(@, ComputeFunc(last))]
    /\ trials' = trials + 1
    /\ UNCHANGED <<fptVars, otherVars>>
    /\ UNCHANGED <<call, pc, ret, variant, hw, num_threads, i, joined,
                   genVars, particles, partial_results, success_flags,
                   errors, written, op, order, phase, mean>>

\* a trial that fails; the worker begins success_flags[i] = false by loading
\* the packed storage of the vector<bool>
MCTrialFail(k, e) ==
    /\ call = "parallel_monte_carlo"
    /\ variant = "result"
    /\ k \in 1..Len(threads)
    /\ threads[k].st = "run"
    /\ threads[k].j < threads[k].end
    /\ threads' = [threads EXCEPT ![k] = AfterFailure(@, e)]
    /\ trials' = trials + 1
    /\ UNCHANGED <<fptVars, otherVars>>
    /\ UNCHANGED <<call, pc, ret, variant, hw, num_threads, i, joined,
                   genVars, particles, partial_results, success_flags,
                   errors, written, op, order, phase, mean>>

\* success_flags[i] = false completes: the loaded storage with bit i cleared
\* is stored back
MCFlagStore(k) ==
    /\ call = "parallel_monte_carlo"
    /\ k \in 1..Len(threads)
    /\ threads[k].st = "flag"
    /\ success_flags' = [m \in DOMAIN success_flags |->
                            IF m = threads[k].id THEN FALSE
                            ELSE threads[k].tmp[m]]
    /\ written' = [written EXCEPT ![threads[k].id] =
                        @ \cup {<<"success_flags">>}]
    /\ threads' = [threads EXCEPT ![k].st = "err"]
    /\ UNCHANGED <<fptVars, otherVars>>
    /\ UNCHANGED <<call, pc, ret, variant, hw, num_threads, i, joined,
                   genVars, particles, partial_results, errors, trials,
                   op, order, phase, mean>>

\* errors[i] = result.error(); return;
MCErrStore(k) ==
    /\ call = "parallel_monte_carlo"
    /\ k \in 1..Len(threads)
    /\ threads[k].st = "err"
    /\ errors' = [errors EXCEPT ![threads[k].id] = threads[k].err]
    /\ written' = [written EXCEPT ![threads[k].id] =
                        @ \cup {<<"errors", threads[k].id>>}]
    /\ threads' = [threads EXCEPT ![k].st = "done"]
    /\ UNCHANGED <<fptVars, otherVars>>
    /\ UNCHANGED <<call, pc, ret, variant, hw, num_threads, i, joined,
                   genVars, particles, partial_results, success_flags,
                   trials, op, order, phase, mean>>

\* the trial loop ends: partial_results[i] = local_sum
MCWorkerFinish(k) ==
    /\ call = "parallel_monte_carlo"
    /\ k \in 1..Len(threads)
    /\ threads[k].st = "run"
    /\ threads[k].j >= threads[k].end
    /\ partial_results' = [partial_results EXCEPT ![threads[k].id] =
                                threads[k].local_sum]
    /\ written' = [written EXCEPT ![threads[k].id] =
                        @ \cup {<<"partial_results", threads[k].id>>}]
    /\ threads' = [threads EXCEPT ![k].st = "done"]
    /\ UNCHANGED <<fptVars, otherVars>>
    /\ UNCHANGED <<call, pc, ret, variant, hw, num_threads, i, joined,
                   genVars, particles, success_flags, errors, trials,
                   op, order, phase, mean>>

MCJoin ==
    /\ call = "parallel_monte_carlo"
    /\ pc = "join"
    /\ joined < Len(threads)
    /\ JoinMayReturn(threads[joined + 1])
    /\ joined' = joined + 1
    /\ UNCHANGED <<fptVars, otherVars>>
    /\ UNCHANGED <<call, pc, ret, variant, hw, num_threads, i, threads,
                   genVars, mcVars>>

\* the indexes whose success flag is false
FailedFlagsFirstOnly == {m \in DOMAIN success_flags : m = 0 /\ ~success_flags[m]}
FailedFlags == {m \in DOMAIN success_flags : ~success_flags[m]}
\* the first index the check loop finds
FirstFailed == CHOOSE m \in FailedFlags : \A m2 \in FailedFlags : m <= m2
\* errors[i].value()
OptionalValue(o) == IF o = "nullopt" THEN "bad_optional_access" ELSE o

\* total_sum / particles
Average == RatDivInt(RatSum(partial_results, num_threads), particles)

\* the check loop finds a cleared flag: return Err(errors[i].value())
MCReturnError ==
    /\ call = "parallel_monte_carlo"
    /\ pc = "join"
    /\ joined >= Len(threads)
    /\ FailedFlags # {}
    /\ ret' = Err(OptionalValue(errors[FirstFailed]))
    /\ pc' = "done"
    /\ UNCHANGED <<fptVars, otherVars>>
    /\ UNCHANGED <<call, variant, hw, num_threads, i, threads, joined,
                   genVars, mcVars>>

\* the nested raw_moment of central_moment returned the mean; the second
\* parallel_monte_carlo call starts
MCMeanDone ==
    /\ call = "parallel_monte_carlo"
    /\ pc = "join"
    /\ joined >= Len(threads)
    /\ FailedFlags = {}
    /\ phase = "mean"
    /\ mean' = Average
    /\ phase' = "main"
    /\ pc' = "start"
    /\ threads' = <<>>
    /\ num_threads' = 0 /\ i' = 0 /\ joined' = 0
    /\ partial_results' = <<>> /\ success_flags' = <<>> /\ errors' = <<>>
    /\ written' = <<>>
    /\ UNCHANGED <<fptVars, otherVars>>
    /\ UNCHANGED <<call, ret, variant, hw, genVars, particles, trials, op,
                   order>>

\* return total_sum / particles
MCReturnAverage ==
    /\ call = "parallel_monte_carlo"
    /\ pc = "join"
    /\ joined >= Len(threads)
    /\ FailedFlags = {}
    /\ phase = "main"
    /\ ret' = Ok(Average)
    /\ pc' = "done"
    /\ UNCHANGED <<fptVars, otherVars>>
    /\ UNCHANGED <<call, variant, hw, num_threads, i, threads, joined,
                   genVars, mcVars>>

NextMC ==
    \/ MCInvalid
    \/ MCSetup
    \/ MCSpawn
    \/ MCSpawnEnd
    \/ \E k \in 1..Len(threads), last \in 0..MaxLast : MCTrialOk(k, last)
    \/ \E k \in 1..Len(threads), e \in TrialErrors : MCTrialFail(k, e)
    \/ \E k \in 1..Len(threads) : MCFlagStore(k)
    \/ \E k \in 1..Len(threads) : MCErrStore(k)
    \/ \E k \in 1..Len(threads) : MCWorkerFinish(k)
    \/ MCJoin
    \/ MCReturnError
    \/ MCMeanDone
    \/ MCReturnAverage

SpecMC == InitMC /\ [][NextMC]_vars

\* either parallel call
SpecPar == (InitGen \/ InitMC) /\ [][NextGen \/ NextMC]_vars


(* ===================== FirstPassageTime<T>::simulate ==================== *)
\* positions range over 0..MaxPos
MaxPos == 2
\* largest number of steps of a simulated trajectory
MaxSteps == 3

Positions == 0..MaxPos
\* values of max_duration and time_step (reals restricted to these integers;
\* every max_duration here is below 100 or a multiple of 10, so that
\* max_duration / 10 compared with 10.0 is computed exactly)
Durations == {0, 5, 10, 30, 40, 200}
Steps == {0, 5, 10, 20, 100}

FptVariants == {"generic", "bm"}

None == [some |-> FALSE]
Some(v) == [some |-> TRUE, v |-> v]

\* static_cast<size_t>(std::ceil(duration / time_step))
NumSteps(d, s) == (d + s - 1) \div s

\* the trajectories simulate(d, s) can return (none when it rejects
\* duration <= 0 or time_step <= 0): marks k * time_step for
\* k = 0..num_steps, values starting at the start position; a constant
\* process stays at its start position
Trajectories(proc, d, s) ==
    IF d <= 0 \/ s <= 0 THEN {} ELSE
    LET num_steps == NumSteps(d, s)
        times == [k \in 0..num_steps |-> k * s]
        paths == IF proc.const
                 THEN {[k \in 0..num_steps |-> proc.start]}
                 ELSE {p \in [0..num_steps -> Positions] : p[0] = proc.start}
    IN  {[t |-> times, x |-> p] : p \in paths}

\* the predicate of find_if: the position is not inside (a, b)
OutsideStrict(pos, a, b) == pos < a \/ pos > b
Outside(pos, a, b) == pos <= a \/ pos >= b

\* find: index of the first sample outside the domain, if any
Find(v, a, b) ==
    LET hits == {k \in DOMAIN v : Outside(v[k], a, b)}
    IN  IF hits # {}
        THEN Some(CHOOSE k \in hits : \A k2 \in hits : k <= k2)
        ELSE None

\* std::max(max_duration / 10, 10.0)
InitialDuration(m) == Max(m \div 10, 10)

\* the duration of the last simulate call once the doubled duration exceeds
\* max_duration
ClampedDurationDoubled(d, m) == d
ClampedDuration(d, m) == m

ValidFptArgs == max_duration > 0 /\ time_step > 0 /\ max_duration >= time_step

InitFPT ==
    /\ IdleOther
    /\ call = "fpt"
    /\ n = 0 /\ result = <<>>
    /\ hw = 0 /\ num_threads = 0 /\ i = 0 /\ threads = <<>> /\ joined = 0
    /\ particles = 0 /\ partial_results = <<>> /\ success_flags = <<>>
    /\ errors = <<>> /\ written = <<>> /\ trials = 0 /\ op = "fpt"
    /\ order = 1 /\ phase = "main" /\ mean = <<0, 1>>
    /\ pc = "construct"
    /\ ret = "none"
    /\ variant \in FptVariants
    /\ process \in [start : Positions, const : BOOLEAN]
    /\ variant = "bm" => ~process.const
    /\ domain \in Positions \X Positions
    /\ max_duration \in Durations
    /\ time_step \in Steps
    /\ (max_duration > 0 /\ time_step > 0) =>
            NumSteps(Max(max_duration, 10), time_step) <= MaxSteps
    /\ duration = 0
    /\ t = <<>>
    /\ x = <<>>
    /\ calls = <<>>
    /\ finals = 0

\* FirstPassageTime(process, domain): throws std::invalid_argument if a >= b
FptConstructThrow ==
    /\ call = "fpt" /\ variant = "generic"
    /\ pc = "construct"
    /\ domain[1] >= domain[2]
    /\ pc' = "thrown"
    /\ ret' = "std::invalid_argument"
    /\ UNCHANGED otherVars
    /\ UNCHANGED <<call, variant, hw, num_threads, i, threads, joined,
                   genVars, mcVars, fptVars>>

FptConstruct ==
    /\ call = "fpt" /\ variant = "generic"
    /\ pc = "construct"
    /\ domain[1] < domain[2]
    /\ pc' = "start"
    /\ UNCHANGED otherVars
    /\ UNCHANGED <<call, ret, variant, hw, num_threads, i, threads, joined,
                   genVars, mcVars, fptVars>>

\* the three argument checks of simulate
FptInvalid ==
    /\ call = "fpt" /\ variant = "generic"
    /\ pc = "start"
    /\ ~ValidFptArgs
    /\ pc' = "done"
    /\ ret' = Err("InvalidArgument")
    /\ UNCHANGED otherVars
    /\ UNCHANGED <<call, variant, hw, num_threads, i, threads, joined,
                   genVars, mcVars, fptVars>>

FptBegin ==
    /\ call = "fpt" /\ variant = "generic"
    /\ pc = "start"
    /\ ValidFptArgs
    /\ duration' = InitialDuration(max_duration)
    /\ pc' = "loop"
    /\ UNCHANGED otherVars
    /\ UNCHANGED <<call, ret, variant, hw, num_threads, i, threads, joined,
                   genVars, mcVars, process, domain, max_duration, time_step,
                   t, x, calls, finals>>

\* m_process.simulate fails: return Err(traj_result.error())
FptSimulateFail(e) ==
    /\ call = "fpt" /\ variant = "generic"
    /\ pc \in {"loop", "final"}
    /\ ~process.const
    /\ calls' = Append(calls, duration)
    /\ finals' = IF pc = "final" THEN finals + 1 ELSE finals
    /\ ret' = Err(e)
    /\ pc' = "done"
    /\ t' = <<>> /\ x' = <<>>
    /\ UNCHANGED otherVars
    /\ UNCHANGED <<call, variant, hw, num_threads, i, threads, joined,
                   genVars, mcVars, process, domain, max_duration, time_step,
                   duration>>

\* one iteration of while (true) whose scan finds an exit
FptLoopFound(traj) ==
    /\ call = "fpt" /\ variant = "generic"
    /\ pc = "loop"
    /\ calls' = Append(calls, duration)
    /\ t' = traj.t /\ x' = traj.x
    /\ Find(traj.x, domain[1], domain[2]).some
    /\ ret' = Ok(Find(traj.x, domain[1], domain[2]))
    /\ pc' = "done"
    /\ UNCHANGED otherVars
    /\ UNCHANGED <<call, variant, hw, num_threads, i, threads, joined,
                   genVars, mcVars, process, domain, max_duration, time_step,
                   duration, finals>>

\* one iteration whose scan finds nothing: duration *= 2, and the clamp
FptLoopDouble(traj) ==
    /\ call = "fpt" /\ variant = "generic"
    /\ pc = "loop"
    /\ calls' = Append(calls, duration)
    /\ t' = traj.t /\ x' = traj.x
    /\ ~Find(traj.x, domain[1], domain[2]).some
    /\ IF duration * 2 > max_duration
       THEN /\ duration' = ClampedDuration(duration * 2, max_duration)
            /\ pc' = "final"
       ELSE /\ duration' = duration * 2
            /\ pc' = "loop"
    /\ UNCHANGED otherVars
    /\ UNCHANGED <<call, ret, variant, hw, num_threads, i, threads, joined,
                   genVars, mcVars, process, domain, max_duration, time_step,
                   finals>>

\* the simulate + scan after the clamp, and the return
FptFinal(traj) ==
    /\ call = "fpt" /\ variant = "generic"
    /\ pc = "final"
    /\ calls' = Append(calls, duration)
    /\ finals' = finals + 1
    /\ t' = traj.t /\ x' = traj.x
    /\ ret' = Ok(Find(traj.x, domain[1], domain[2]))
    /\ pc' = "done"
    /\ UNCHANGED otherVars
    /\ UNCHANGED <<call, variant, hw, num_threads, i, threads, joined,
                   genVars, mcVars, process, domain, max_duration, time_step,
                   duration>>

(* ------------------------- BrownianMotion::fpt ------------------------- *)
\* if (lower >= upper) return Err(InvalidArgument)
BmFptInvalidDomain ==
    /\ call = "fpt" /\ variant = "bm"
    /\ pc = "construct"
    /\ domain[1] >= domain[2]
    /\ pc' = "done"
    /\ ret' = Err("InvalidArgument")
    /\ UNCHANGED otherVars
    /\ UNCHANGED <<call, variant, hw, num_threads, i, threads, joined,
                   genVars, mcVars, fptVars>>

\* simulate(max_duration, time_step) rejects duration <= 0 or time_step <= 0
BmFptInvalidArgs ==
    /\ call = "fpt" /\ variant = "bm"
    /\ pc = "construct"
    /\ domain[1] < domain[2]
    /\ (max_duration <= 0 \/ time_step <= 0)
    /\ calls' = Append(calls, max_duration)
    /\ pc' = "done"
    /\ ret' = Err("InvalidArgument")
    /\ UNCHANGED otherVars
    /\ UNCHANGED <<call, variant, hw, num_threads, i, threads, joined,
                   genVars, mcVars, process, domain, max_duration, time_step,
                   duration, t, x, finals>>

\* simulate once over max_duration and return the time of the first exit
BmFpt(traj) ==
    /\ call = "fpt" /\ variant = "bm"
    /\ pc = "construct"
    /\ domain[1] < domain[2]
    /\ max_duration > 0 /\ time_step > 0
    /\ NumSteps(max_duration, time_step) <= MaxSteps
    /\ traj \in Trajectories(process, max_duration, time_step)
    /\ calls' = Append(calls, max_duration)
    /\ duration' = max_duration
    /\ t' = traj.t /\ x' = traj.x
    /\ LET f == Find(traj.x, domain[1], domain[2])
       IN  ret' = IF f.some THEN Ok(Some(traj.t[f.v])) ELSE Ok(None)
    /\ pc' = "done"
    /\ UNCHANGED otherVars
    /\ UNCHANGED <<call, variant, hw, num_threads, i, threads, joined,
                   genVars, mcVars, process, domain, max_duration, time_step,
                   finals>>

NextFPT ==
    \/ FptConstructThrow
    \/ FptConstruct
    \/ FptInvalid
    \/ FptBegin
    \/ \E e \in TrialErrors : FptSimulateFail(e)
    \/ \E traj \in Trajectories(process, duration, time_step) :
            FptLoopFound(traj)
    \/ \E traj \in Trajectories(process, duration, time_step) :
            FptLoopDouble(traj)
    \/ \E traj \in Trajectories(process, duration, time_step) :
            FptFinal(traj)
    \/ BmFptInvalidDomain
    \/ BmFptInvalidArgs
    \/ \E traj \in Trajectories(process, max_duration, time_step) :
            BmFpt(traj)

SpecFPT == InitFPT /\ [][NextFPT]_vars

(* ============================ ensemble_tamsd =========================== *)
\* longest trajectory passed to tamsd
MaxTrajLen == 2
\* largest number of trajectories passed to ensemble_tamsd
MaxTraj == 2
\* largest lag_time
MaxLag == 2
\* positions stored in a trajectory
TrajValues == {0, 1}

\* Error::InvalidArgument(message)
InvalidArgument(msg) == [kind |-> "InvalidArgument", message |-> msg]

SeqsUpTo(S, len) == UNION {[1..m -> S] : m \in 0..len}

RECURSIVE SquaredDisplacements(_, _, _)
\* sum of (trajectory[i + lag] - trajectory[i])^2 for i in 0..count-1
SquaredDisplacements(trajectory, lag, count) ==
    IF count = 0 THEN 0
    ELSE LET displacement == trajectory[count + lag] - trajectory[count]
         IN  SquaredDisplacements(trajectory, lag, count - 1)
                + displacement * displacement

\* tamsd(trajectory, lag_time)
Tamsd(trajectory, lag) ==
    IF Len(trajectory) = 0
    THEN Err(InvalidArgument("Trajectory cannot be empty"))
    ELSE IF lag = 0
    THEN Err(InvalidArgument("Lag time must be positive"))
    ELSE IF lag >= Len(trajectory)
    THEN Err(InvalidArgument("Lag time must be less than trajectory length"))
    ELSE LET count == Len(trajectory) - lag
         IN  Ok(Rat(SquaredDisplacements(trajectory, lag, count), count))

InitTamsd ==
    /\ call = "ensemble_tamsd"
    /\ pc = "start"
    /\ ret = "none"
    /\ variant = "none"
    /\ IdlePool /\ IdleGen /\ IdleMC /\ IdleFPT /\ IdleSim /\ IdleStable
    /\ IdleReject
    /\ trajectories \in SeqsUpTo(SeqsUpTo(TrajValues, MaxTrajLen), MaxTraj)
    /\ lag_time \in 0..MaxLag
    /\ sum = <<0, 1>>
    /\ valid_count = 0
    /\ it = 0

\* if (trajectories.empty()) return Err(...)
EnsembleEmpty ==
    /\ call = "ensemble_tamsd" /\ pc = "start"
    /\ Len(trajectories) = 0
    /\ pc' = "done"
    /\ ret' = Err(InvalidArgument("Trajectories vector cannot be empty"))
    /\ UNCHANGED <<call, variant, poolVars, genVars, mcVars, fptVars,
                   otherVars>>

\* double sum = 0.0; size_t valid_count = 0; enter the loop
EnsembleBegin ==
    /\ call = "ensemble_tamsd" /\ pc = "start"
    /\ Len(trajectories) > 0
    /\ pc' = "loop"
    /\ sum' = <<0, 1>>
    /\ valid_count' = 0
    /\ it' = 0
    /\ UNCHANGED <<call, ret, variant, poolVars, genVars, mcVars, fptVars,
                   otherThanTamsd, trajectories, lag_time>>

\* if (result.has_value()) is false: nothing is recorded, the loop goes on
SkipFailed(res) ==
    /\ it' = it + 1
    /\ UNCHANGED <<pc, ret, sum, valid_count>>

\* one iteration of for (const auto& trajectory : trajectories)
EnsembleStep ==
    /\ call = "ensemble_tamsd" /\ pc = "loop"
    /\ it < Len(trajectories)
    /\ LET res == Tamsd(trajectories[it + 1], lag_time)
       IN  IF res.ok
           THEN /\ sum' = RatAdd(sum, res.val)
                /\ valid_count' = valid_count + 1
                /\ it' = it + 1
                /\ UNCHANGED <<pc, ret>>
           ELSE SkipFailed(res)
    /\ UNCHANGED <<call, variant, poolVars, genVars, mcVars, fptVars,
                   otherThanTamsd, trajectories, lag_time>>

\* if (valid_count == 0) return Err(...)
EnsembleNoValid ==
    /\ call = "ensemble_tamsd" /\ pc = "loop"
    /\ it = Len(trajectories)
    /\ valid_count = 0
    /\ pc' = "done"
    /\ ret' = Err(InvalidArgument(
                    "No valid trajectories for TAMSD computation"))
    /\ UNCHANGED <<call, variant, poolVars, genVars, mcVars, fptVars,
                   otherVars>>

\* return Ok(sum / static_cast<double>(valid_count))
EnsembleReturn ==
    /\ call = "ensemble_tamsd" /\ pc = "loop"
    /\ it = Len(trajectories)
    /\ valid_count > 0
    /\ pc' = "done"
    /\ ret' = Ok(RatDivInt(sum, valid_count))
    /\ UNCHANGED <<call, variant, poolVars, genVars, mcVars, fptVars,
                   otherVars>>

NextTamsd ==
    \/ EnsembleEmpty
    \/ EnsembleBegin
    \/ EnsembleStep
    \/ EnsembleNoValid
    \/ EnsembleReturn

SpecTamsd == InitTamsd /\ [][NextTamsd]_vars

(* =============================== simulate ============================== *)
\* Entry points that produce one trajectory:
\*   PointProcess::simulate(duration), CTRW::simulate_with_duration(duration)
\*   BrownianMotion::simulate(duration, time_step),
\*   SimpleRandomWalk::simulate(num_steps).
\* For the two duration-driven point processes, times are counted in halves
\* of a time unit, so that std::ceil(duration) is not the identity.

\* largest duration (in half units) of a point-process simulate call
MaxDuration == 4
\* largest waiting time (in half units) between two events
MaxWait == 2
\* largest num_steps passed to SimpleRandomWalk::simulate
MaxWalk == 2
\* half units per time unit
HalfUnits == 2

SimVariants == {"PointProcess", "CTRW", "BrownianMotion", "SimpleRandomWalk"}
\* jump of the position at one event
Jumps == {-1, 1}

\* std::ceil(duration) for a duration given in half units
Ceil(d) ==
    IF d >= 0 THEN (d + HalfUnits - 1) \div HalfUnits
    ELSE -((-d) \div HalfUnits)

\* static_cast<size_t>(v) of a double: a negative value is out of range of
\* size_t, the conversion is undefined and may produce any value
SizeCast(v) == IF v >= 0 THEN {v} ELSE 0..2

RECURSIVE Cumulative(_, _)
\* f[1] + ... + f[k]
Cumulative(f, k) == IF k = 0 THEN 0 ELSE Cumulative(f, k - 1) + f[k]

\* trajectories of num_steps events: times[0] = 0, positions[0] = start,
\* times[i] = times[i-1] + waiting_times[i-1] with positive waiting times,
\* positions[i] = positions[i-1] + jump_lengths[i-1]; the jumps of one
\* trajectory are taken equal, so that every event changes the position
StepTrajectories(steps) ==
    {[t |-> [k \in 0..steps |-> Cumulative(w, k)],
      x |-> [k \in 0..steps |-> k * j]] :
        w \in [1..steps -> 1..MaxWait], j \in Jumps}

\* SimpleRandomWalk: steps[i] = i, positions[i] = positions[i-1] +- step
WalkTrajectories(steps) ==
    {[t |-> [k \in 0..steps |-> k],
      x |-> [k \in 0..steps |-> Cumulative(j, k)]] :
        j \in [1..steps -> Jumps]}

SetMin(S) == CHOOSE m \in S : \A k \in S : m <= k
\* number of elements of a vector indexed from 0
Size(v) == Cardinality(DOMAIN v)
Back(v) == v[Size(v) - 1]

\* std::ranges::find_if(t, time >= duration): index of the first such mark
FindIf(v, d) ==
    LET hits == {k \in DOMAIN v : v[k] >= d}
    IN  IF hits = {} THEN Size(v) ELSE SetMin(hits)

\* std::upper_bound(times, duration): index of the first mark > duration
UpperBound(v, d) ==
    LET hits == {k \in DOMAIN v : v[k] > d}
    IN  IF hits = {} THEN Size(v) ELSE SetMin(hits)

\* the call has not returned
NotReturned == [returned |-> FALSE]

InitSim ==
    /\ call = "simulate"
    /\ pc = "start"
    /\ ret = NotReturned
    /\ IdlePool /\ IdleGen /\ IdleMC /\ IdleTamsd /\ IdleStable
    /\ IdleReject
    /\ variant \in SimVariants
    /\ process = [start |-> 0, const |-> FALSE]
    /\ domain = <<0, 0>> /\ max_duration = 0 /\ calls = <<>> /\ finals = 0
    /\ t = <<>> /\ x = <<>>
    /\ \/ /\ variant \in {"PointProcess", "CTRW"}
          /\ duration \in -HalfUnits..MaxDuration
          /\ time_step = 0 /\ num_step = 0
       \/ /\ variant = "BrownianMotion"
          /\ duration \in Durations /\ time_step \in Steps
          /\ (duration > 0 /\ time_step > 0) =>
                NumSteps(duration, time_step) <= MaxSteps
          /\ num_step = 0
       \/ /\ variant = "SimpleRandomWalk"
          /\ num_step \in 0..MaxWalk
          /\ duration = 0 /\ time_step = 0

Pair(ts, xs) == [t |-> ts, x |-> xs]

\* num_step *= 2
DoubledStays(steps) == steps
Doubled(steps) == steps * 2

\* PointProcess::simulate: num_step = static_cast<size_t>(std::ceil(duration))
PointBegin ==
    /\ call = "simulate" /\ variant = "PointProcess" /\ pc = "start"
    /\ num_step' \in SizeCast(Ceil(duration))
    /\ pc' = "loop"
    /\ UNCHANGED <<call, ret, variant, poolVars, genVars, mcVars, otherThanSim,
                   process, domain, max_duration, time_step, duration, t, x,
                   calls, finals>>

\* simulate_with_step(num_step) fails: return Err(result.error())
PointStepFail(e) ==
    /\ call = "simulate" /\ variant = "PointProcess" /\ pc = "loop"
    /\ pc' = "done"
    /\ ret' = Err(e)
    /\ UNCHANGED <<call, variant, poolVars, genVars, mcVars, fptVars,
                   otherVars>>

\* simulate_with_step(num_step) succeeds: break if the trajectory reaches
\* duration, otherwise num_step *= 2
PointStep ==
    /\ call = "simulate" /\ variant = "PointProcess" /\ pc = "loop"
    /\ \E traj \in StepTrajectories(num_step) :
        /\ t' = traj.t /\ x' = traj.x
        /\ IF Back(traj.t) >= duration
           THEN pc' = "truncate" /\ UNCHANGED num_step
           ELSE pc' = "loop" /\ num_step' = Doubled(num_step)
    /\ UNCHANGED <<call, ret, variant, poolVars, genVars, mcVars, otherThanSim,
                   process, domain, max_duration, time_step, duration,
                   calls, finals>>

\* copy the marks before index; the mark at index is either kept or
\* replaced by (duration, x_[index - 1])
TruncatedOvershoot(index, last) ==
    Pair([k \in 0..index |-> t[k]], [k \in 0..index |-> x[k]])
Truncated(index, last) ==
    Pair([k \in 0..index |->
            IF k < index THEN t[k]
            ELSE IF t[index] > duration THEN duration ELSE t[index]],
         [k \in 0..index |-> IF k < index THEN x[k] ELSE last])

\* the tail of PointProcess::simulate after the loop
PointTruncate ==
    /\ call = "simulate" /\ variant = "PointProcess" /\ pc = "truncate"
    /\ LET index == FindIf(t, duration)
       IN  IF t[index] > duration
           THEN IF index >= 1
                THEN /\ ret' = Ok(Truncated(index, x[index - 1]))
                     /\ pc' = "done"
                ELSE \* x_[index - 1] reads x_[SIZE_MAX] of a vector of one
                     \* element: out of bounds, any value or a crash
                     \/ /\ \E garbage \in Jumps :
                                ret' = Ok(Truncated(index, garbage))
                        /\ pc' = "done"
                     \/ /\ pc' = "crashed"
                        /\ ret' = [crashed |-> "out-of-bounds"]
           ELSE /\ ret' = Ok(Truncated(index, x[index]))
                /\ pc' = "done"
    /\ UNCHANGED <<call, variant, poolVars, genVars, mcVars, fptVars,
                   otherVars>>

\* CTRW::simulate_with_duration: if (duration <= 0) return Err(...)
CtrwInvalid ==
    /\ call = "simulate" /\ variant = "CTRW" /\ pc = "start"
    /\ duration <= 0
    /\ pc' = "done"
    /\ ret' = Err("InvalidArgument")
    /\ UNCHANGED <<call, variant, poolVars, genVars, mcVars, fptVars,
                   otherVars>>

\* num_steps = static_cast<size_t>(std::ceil(duration))
CtrwBegin ==
    /\ call = "simulate" /\ variant = "CTRW" /\ pc = "start"
    /\ duration > 0
    /\ num_step' \in SizeCast(Ceil(duration))
    /\ pc' = "loop"
    /\ UNCHANGED <<call, ret, variant, poolVars, genVars, mcVars, otherThanSim,
                   process, domain, max_duration, time_step, duration, t, x,
                   calls, finals>>

\* truncated_times / truncated_positions, with the final point at duration
CtrwTruncated(times, positions) ==
    LET index == UpperBound(times, duration)
        push  == index > 0 /\ times[index - 1] < duration
        len   == IF push THEN index + 1 ELSE index
    IN  Pair([k \in 0..(len - 1) |->
                IF k < index THEN times[k] ELSE duration],
             [k \in 0..(len - 1) |->
                IF k < index THEN positions[k] ELSE positions[index - 1]])

\* simulate_with_steps(num_steps) fails: return Err(result.error())
CtrwStepFail(e) ==
    /\ call = "simulate" /\ variant = "CTRW" /\ pc = "loop"
    /\ pc' = "done"
    /\ ret' = Err(e)
    /\ UNCHANGED <<call, variant, poolVars, genVars, mcVars, fptVars,
                   otherVars>>

\* one iteration of while (true) in CTRW::simulate_with_duration
CtrwStep ==
    /\ call = "simulate" /\ variant = "CTRW" /\ pc = "loop"
    /\ \E traj \in StepTrajectories(num_step) :
        /\ t' = traj.t /\ x' = traj.x
        /\ IF Back(traj.t) >= duration
           THEN /\ ret' = Ok(CtrwTruncated(traj.t, traj.x))
                /\ pc' = "done"
                /\ UNCHANGED num_step
           ELSE /\ num_step' = Doubled(num_step)
                /\ UNCHANGED <<pc, ret>>
    /\ UNCHANGED <<call, variant, poolVars, genVars, mcVars, otherThanSim,
                   process, domain, max_duration, time_step, duration,
                   calls, finals>>

\* BrownianMotion::simulate: duration <= 0 or time_step <= 0 is rejected
BmSimulateInvalid ==
    /\ call = "simulate" /\ variant = "BrownianMotion" /\ pc = "start"
    /\ (duration <= 0 \/ time_step <= 0)
    /\ pc' = "done"
    /\ ret' = Err("InvalidArgument")
    /\ UNCHANGED <<call, variant, poolVars, genVars, mcVars, fptVars,
                   otherVars>>

BmSimulate ==
    /\ call = "simulate" /\ variant = "BrownianMotion" /\ pc = "start"
    /\ duration > 0 /\ time_step > 0
    /\ \E traj \in Trajectories(process, duration, time_step) :
        /\ t' = traj.t /\ x' = traj.x
        /\ pc' = "done"
        /\ ret' = Ok(Pair(traj.t, traj.x))
    /\ UNCHANGED <<call, variant, poolVars, genVars, mcVars, otherVars,
                   process, domain, max_duration, time_step, duration,
                   calls, finals>>

\* SimpleRandomWalk::simulate(num_steps): num_steps == 0 returns the start
SrwSimulate ==
    /\ call = "simulate" /\ variant = "SimpleRandomWalk" /\ pc = "start"
    /\ \E traj \in WalkTrajectories(num_step) :
        /\ t' = traj.t /\ x' = traj.x
        /\ pc' = "done"
        /\ ret' = Ok(Pair(traj.t, traj.x))
    /\ UNCHANGED <<call, variant, poolVars, genVars, mcVars, otherVars,
                   process, domain, max_duration, time_step, duration,
                   calls, finals>>

NextSim ==
    \/ PointBegin
    \/ \E e \in TrialErrors : PointStepFail(e)
    \/ PointStep
    \/ PointTruncate
    \/ CtrwInvalid
    \/ CtrwBegin
    \/ \E e \in TrialErrors : CtrwStepFail(e)
    \/ CtrwStep
    \/ BmSimulateInvalid
    \/ BmSimulate
    \/ SrwSimulate

SpecSim == InitSim /\ [][NextSim]_vars

\* the calling thread keeps running: a call that can take a step takes one
\* what a step of a simulate call changes before it returns
simPos == <<pc, num_step, t, x>>
SpecSimLive == InitSim /\ [][NextSim]_vars /\ WF_simPos(NextSim)

(* ===================== statistics of a process class =================== *)
\* fpt, occupation_time, tamsd and eatamsd as methods of the base classes
\* (ContinuousProcess / PointProcess, variant "generic") and of
\* BrownianMotion (variant "bm").  fpt is the first-passage model above.

BaseStatistics == {"occupation_time", "tamsd", "eatamsd"}

InitStat ==
    /\ call \in BaseStatistics
    /\ pc = "start"
    /\ ret = "none"
    /\ IdlePool /\ IdleGen /\ IdleMC /\ IdleOther
    /\ variant \in FptVariants
    /\ variant = "bm" => call = "occupation_time"
    /\ process \in [start : Positions, const : {FALSE}]
    /\ domain \in Positions \X Positions
    /\ duration \in Durations
    /\ time_step \in Steps
    /\ (duration > 0 /\ time_step > 0) =>
            NumSteps(duration, time_step) <= MaxSteps
    /\ max_duration = 0
    /\ t = <<>> /\ x = <<>> /\ calls = <<>> /\ finals = 0

\* what a statistic of the base class returns
NotProvidedDefault == Ok(0)
NotProvided == Err("NotImplemented")

\* ContinuousProcess / PointProcess :: occupation_time, tamsd, eatamsd
BaseStatistic ==
    /\ call \in BaseStatistics /\ variant = "generic" /\ pc = "start"
    /\ pc' = "done"
    /\ ret' = NotProvided
    /\ UNCHANGED <<call, variant, poolVars, genVars, mcVars, fptVars,
                   otherVars>>

\* BrownianMotion::occupation_time: if (lower >= upper) return Err(...)
OccInvalidDomain ==
    /\ call = "occupation_time" /\ variant = "bm" /\ pc = "start"
    /\ domain[1] >= domain[2]
    /\ pc' = "done"
    /\ ret' = Err("InvalidArgument")
    /\ UNCHANGED <<call, variant, poolVars, genVars, mcVars, fptVars,
                   otherVars>>

\* simulate(duration, time_step) rejects its arguments
OccSimulateFail ==
    /\ call = "occupation_time" /\ variant = "bm" /\ pc = "start"
    /\ domain[1] < domain[2]
    /\ (duration <= 0 \/ time_step <= 0)
    /\ calls' = Append(calls, duration)
    /\ pc' = "done"
    /\ ret' = Err("InvalidArgument")
    /\ UNCHANGED <<call, variant, poolVars, genVars, mcVars, otherVars,
                   process, domain, max_duration, time_step, duration, t, x,
                   finals>>

\* positions[i] > lower && positions[i] < upper
InsideClosed(pos, lower, upper) == pos >= lower /\ pos <= upper
Inside(pos, lower, upper) == pos > lower /\ pos < upper

RECURSIVE Occupation(_, _, _, _, _)
\* for (i = 1; i < positions.size(); ++i) occupation += time_step if inside;
\* k is the last index visited
Occupation(positions, lower, upper, step, k) ==
    IF k < 1 THEN 0
    ELSE Occupation(positions, lower, upper, step, k - 1)
            + (IF Inside(positions[k], lower, upper) THEN step ELSE 0)

OccupationTime(traj) ==
    /\ call = "occupation_time" /\ variant = "bm" /\ pc = "start"
    /\ domain[1] < domain[2]
    /\ duration > 0 /\ time_step > 0
    /\ traj \in Trajectories(process, duration, time_step)
    /\ calls' = Append(calls, duration)
    /\ t' = traj.t /\ x' = traj.x
    /\ pc' = "done"
    /\ ret' = Ok(Occupation(traj.x, domain[1], domain[2], time_step,
                            Size(traj.x) - 1))
    /\ UNCHANGED <<call, variant, poolVars, genVars, mcVars, otherVars,
                   process, domain, max_duration, time_step, duration,
                   finals>>

NextStat ==
    \/ BaseStatistic
    \/ OccInvalidDomain
    \/ OccSimulateFail
    \/ \E traj \in Trajectories(process, duration, time_step) :
            OccupationTime(traj)

SpecStat == (InitStat \/ InitFPT) /\ [][NextStat \/ NextFPT]_vars

(* ==================== <cmath> on exactly known values ================== *)
\* The stable sampler works on angles.  A double is modelled exactly when it
\* is c + u*theta + p*(pi/4) with rational c, u, p, where theta is the angle
\* with sin(theta) = 3/5 and cos(theta) = 4/5; every other value is Opaque
\* (a double whose exact value the model does not track).
Zero == <<0, 1>>
One == <<1, 1>>
Exact(c, u, p) == [exact |-> TRUE, c |-> c, u |-> u, p |-> p]
Opaque == [exact |-> FALSE]
Num(q) == Exact(q, Zero, Zero)
Whole(k) == Num(<<k, 1>>)
\* multiples of theta and of pi/4
Theta(k) == Exact(Zero, <<k, 1>>, Zero)
QuarterPi(k) == Exact(Zero, Zero, <<k, 1>>)
\* std::numbers::pi
pi == QuarterPi(4)

IsNum(a) == a.exact /\ a.u = Zero /\ a.p = Zero
IsZero(a) == a = Num(Zero)
IsPiMultiple(a) == a.exact /\ a.c = Zero /\ a.u = Zero
IsInt(q) == q[2] = 1
RatInv(q) == Rat(q[2], q[1])
RatNeg(q) == Rat(-q[1], q[2])

RScale(q, a) == Exact(RatMul(q, a.c), RatMul(q, a.u), RatMul(q, a.p))
RAdd(a, b) ==
    IF a.exact /\ b.exact
    THEN Exact(RatAdd(a.c, b.c), RatAdd(a.u, b.u), RatAdd(a.p, b.p))
    ELSE Opaque
RSub(a, b) ==
    IF a.exact /\ b.exact
    THEN Exact(RatSub(a.c, b.c), RatSub(a.u, b.u), RatSub(a.p, b.p))
    ELSE Opaque
\* a product is tracked when one factor is a rational number
RMul(a, b) ==
    IF IsZero(a) \/ IsZero(b) THEN Num(Zero)
    ELSE IF ~a.exact \/ ~b.exact THEN Opaque
    ELSE IF IsNum(a) THEN RScale(a.c, b)
    ELSE IF IsNum(b) THEN RScale(b.c, a)
    ELSE Opaque
\* a quotient is tracked when the divisor is a rational number, or when both
\* operands are multiples of pi
RDiv(a, b) ==
    IF ~a.exact \/ ~b.exact \/ IsZero(b) THEN Opaque
    ELSE IF IsNum(b) THEN RScale(RatInv(b.c), a)
    ELSE IF IsPiMultiple(a) /\ IsPiMultiple(b)
         THEN Num(RatMul(a.p, RatInv(b.p)))
    ELSE Opaque

RECURSIVE SinTheta(_)
RECURSIVE CosTheta(_)
\* sin and cos of k*theta by the addition formulas
SinTheta(k) ==
    IF k = 0 THEN Zero
    ELSE IF k < 0 THEN RatNeg(SinTheta(-k))
    ELSE RatAdd(RatMul(SinTheta(k - 1), <<4, 5>>),
                RatMul(CosTheta(k - 1), <<3, 5>>))
CosTheta(k) ==
    IF k = 0 THEN One
    ELSE IF k < 0 THEN CosTheta(-k)
    ELSE RatSub(RatMul(CosTheta(k - 1), <<4, 5>>),
                RatMul(SinTheta(k - 1), <<3, 5>>))

\* an angle k*theta + m*(pi/2) with integers k and m
IsTrackedAngle(a) ==
    /\ a.exact /\ a.c = Zero
    /\ IsInt(a.u) /\ IsInt(a.p) /\ a.p[1] % 2 = 0
Quadrant(a) == (a.p[1] \div 2) % 4

sin(a) ==
    IF ~IsTrackedAngle(a) THEN Opaque
    ELSE LET k == a.u[1]
         IN  Num(CASE Quadrant(a) = 0 -> SinTheta(k)
                   [] Quadrant(a) = 1 -> CosTheta(k)
                   [] Quadrant(a) = 2 -> RatNeg(SinTheta(k))
                   [] Quadrant(a) = 3 -> RatNeg(CosTheta(k)))
cos(a) ==
    IF ~IsTrackedAngle(a) THEN Opaque
    ELSE LET k == a.u[1]
         IN  Num(CASE Quadrant(a) = 0 -> CosTheta(k)
                   [] Quadrant(a) = 1 -> RatNeg(SinTheta(k))
                   [] Quadrant(a) = 2 -> RatNeg(CosTheta(k))
                   [] Quadrant(a) = 3 -> SinTheta(k))
tan(a) == RDiv(sin(a), cos(a))
atan(a) ==
    IF a = Whole(0) THEN Whole(0)
    ELSE IF a = Whole(1) THEN QuarterPi(1)
    ELSE IF a = Whole(-1) THEN QuarterPi(-1)
    ELSE Opaque
log(a) == IF a = Whole(1) THEN Whole(0) ELSE Opaque

IsSquare(m) == \E r \in 0..m : r * r = m
Sqrt(m) == CHOOSE r \in 0..m : r * r = m
RECURSIVE RatPowInt(_, _)
RatPowInt(q, k) ==
    IF k = 0 THEN One
    ELSE IF k < 0 THEN RatInv(RatPowInt(q, -k))
    ELSE RatMul(q, RatPowInt(q, k - 1))
\* pow(a, e) for rational a > 0 and e: tracked for an integer e, for a = 1,
\* and for a half-integer e when a is the square of a rational
pow(a, e) ==
    IF ~IsNum(a) \/ ~IsNum(e) \/ a.c[1] <= 0 THEN Opaque
    ELSE IF IsInt(e.c) THEN Num(RatPowInt(a.c, e.c[1]))
    ELSE IF a = Whole(1) THEN Whole(1)
    ELSE IF e.c[2] = 2 /\ IsSquare(a.c[1]) /\ IsSquare(a.c[2])
         THEN Num(RatPowInt(<<Sqrt(a.c[1]), Sqrt(a.c[2])>>, e.c[1]))
    ELSE Opaque

(* ============================== rand_stable ============================ *)
\* largest n of the vector form
MaxDraws == 2

StableForms == {"scalar", "vector"}
Alphas == {<<0, 1>>, <<1, 2>>, <<9, 10>>, <<1, 1>>, <<11, 10>>, <<2, 1>>,
           <<5, 2>>}
Betas == {-2, -1, 0, 1, 2}
Sigmas == {0, 1, 2}
Mus == {0, 1}
\* values of v = rand(-half_pi, half_pi) and of w = randexp()
UniformDraws == {Theta(-2), Theta(0), Theta(2)}
ExpDraws == {1, 4}

\* Error::InvalidArgument(std::format("... `name` must be ..., but got {}"))
InvalidParameter(name, value) ==
    [kind |-> "InvalidArgument", parameter |-> name, value |-> value]

RatLess(p, q) == p[1] * q[2] < q[1] * p[2]

CheckParametersNoSigma(a, b, s) ==
    IF ~RatLess(Zero, a) \/ RatLess(<<2, 1>>, a)
    THEN Err(InvalidParameter("alpha", a))
    ELSE IF b < -1 \/ b > 1
    THEN Err(InvalidParameter("beta", b))
    ELSE Ok(TRUE)
\* check_parameters(alpha, beta, sigma)
CheckParameters(a, b, s) ==
    IF ~RatLess(Zero, a) \/ RatLess(<<2, 1>>, a)
    THEN Err(InvalidParameter("alpha", a))
    ELSE IF b < -1 \/ b > 1
    THEN Err(InvalidParameter("beta", b))
    ELSE IF s <= 0
    THEN Err(InvalidParameter("sigma", s))
    ELSE Ok(TRUE)

half_pi == RDiv(pi, Whole(2))

\* sample_standard(alpha, beta) with the draws v and w
SampleStandard(a, b, v, w) ==
    LET tmp == RMul(Whole(b), tan(RMul(Num(a), half_pi)))
        bb  == RDiv(atan(tmp), Num(a))
        s   == pow(RAdd(Whole(1), RMul(tmp, tmp)),
                   RDiv(Whole(1), RMul(Whole(2), Num(a))))
        c1  == RDiv(RMul(Num(a), sin(RAdd(v, bb))),
                    pow(cos(v), RDiv(Whole(1), Num(a))))
        c2  == pow(RDiv(cos(RSub(v, RMul(Num(a), RAdd(v, bb)))), Whole(w)),
                   RDiv(RSub(Whole(1), Num(a)), Num(a)))
    IN  RMul(RMul(s, c1), c2)

\* sample_standard(beta) with the draws v and w
SampleStandardAlpha1(b, v, w) ==
    LET c1  == RMul(RAdd(half_pi, RMul(Whole(b), v)), tan(v))
        tmp == RDiv(RMul(RMul(half_pi, Whole(w)), cos(v)),
                    RAdd(half_pi, RMul(Whole(b), v)))
        c2  == RMul(log(tmp), Whole(b))
    IN  RDiv(RMul(Whole(2), RSub(c1, c2)), pi)

\* sample(alpha, beta, sigma, mu)
Sample(a, b, s, m, v, w) ==
    RAdd(Whole(m), RMul(Whole(s), SampleStandard(a, b, v, w)))

\* sample(beta, sigma, mu)
SampleAlpha1(b, s, m, v, w) ==
    RAdd(RAdd(RMul(Whole(s), SampleStandardAlpha1(b, v, w)), Whole(m)),
         RDiv(RMul(RMul(RMul(RMul(Whole(2), Whole(b)), Whole(s)), Whole(s)),
                   log(Whole(s))),
              pi))

\* if (alpha == 1)
UsesAlpha1BranchBand(a) ==
    ~RatLess(a, <<9, 10>>) /\ ~RatLess(<<11, 10>>, a)
UsesAlpha1Branch(a) == a = One

Sampler(a) == IF UsesAlpha1Branch(a) THEN "alpha1" ELSE "general"

\* one invocation of the sampler closure
Draw(which, v, w) ==
    [branch |-> which, v |-> v, w |-> w,
     value |-> IF which = "alpha1"
               THEN SampleAlpha1(beta, sigma, mu, v, w)
               ELSE Sample(alpha, beta, sigma, mu, v, w)]

Values(ds) == [k \in 1..Len(ds) |-> ds[k].value]

InitStable ==
    /\ call = "rand_stable"
    /\ pc = "start"
    /\ ret = "none"
    /\ variant \in StableForms
    /\ hw \in 0..MaxHWMC
    /\ num_threads = 0 /\ i = 0 /\ threads = <<>> /\ joined = 0
    /\ n \in (IF variant = "vector" THEN 0..MaxDraws ELSE {0})
    /\ result = <<>>
    /\ IdleMC /\ IdleFPT /\ IdleTamsd /\ IdleSim /\ IdleReject
    /\ alpha \in Alphas
    /\ beta \in Betas
    /\ sigma \in Sigmas
    /\ mu \in Mus
    /\ sampler = "none"
    /\ samples = <<>>

\* if (auto res = check_parameters(alpha, beta, sigma); !res) return Err(...)
StableInvalid ==
    /\ call = "rand_stable" /\ pc = "start"
    /\ ~CheckParameters(alpha, beta, sigma).ok
    /\ pc' = "done"
    /\ ret' = Err(CheckParameters(alpha, beta, sigma).err)
    /\ UNCHANGED <<call, variant, poolVars, genVars, mcVars, fptVars,
                   otherVars>>

\* scalar form: return Ok(sample(...)) of the selected branch
StableScalar(v, w) ==
    /\ call = "rand_stable" /\ variant = "scalar" /\ pc = "start"
    /\ CheckParameters(alpha, beta, sigma).ok
    /\ LET d == Draw(Sampler(alpha), v, w)
       IN  /\ samples' = Append(samples, d)
           /\ ret' = Ok(d.value)
    /\ pc' = "done"
    /\ UNCHANGED <<call, variant, poolVars, genVars, mcVars, fptVars,
                   otherThanStable, alpha, beta, sigma, mu, sampler>>

\* vector form: build the sampler closure and enter parallel_generate, which
\* returns at once for n == 0 and otherwise starts its workers
StableVector ==
    /\ call = "rand_stable" /\ variant = "vector" /\ pc = "start"
    /\ CheckParameters(alpha, beta, sigma).ok
    /\ sampler' = Sampler(alpha)
    /\ IF n = 0
       THEN pc' = "done" /\ ret' = Ok(<<>>) /\ UNCHANGED num_threads
       ELSE pc' = "generate" /\ num_threads' = NumThreads(hw, n)
                /\ UNCHANGED ret
    /\ UNCHANGED <<call, variant, hw, i, threads, joined, genVars, mcVars,
                   fptVars, otherThanStable, alpha, beta, sigma, mu, samples>>

\* a worker fills one slot: result[j] = sampler()
StableDraw(v, w) ==
    /\ call = "rand_stable" /\ variant = "vector" /\ pc = "generate"
    /\ Len(samples) < n
    /\ samples' = Append(samples, Draw(sampler, v, w))
    /\ UNCHANGED <<call, pc, ret, variant, poolVars, genVars, mcVars,
                   fptVars, otherThanStable, alpha, beta, sigma, mu, sampler>>

\* all slots are filled and the workers joined: return Ok(result)
StableReturn ==
    /\ call = "rand_stable" /\ variant = "vector" /\ pc = "generate"
    /\ Len(samples) = n
    /\ pc' = "done"
    /\ ret' = Ok(Values(samples))
    /\ UNCHANGED <<call, variant, poolVars, genVars, mcVars, fptVars,
                   otherVars>>

NextStable ==
    \/ StableInvalid
    \/ \E v \in UniformDraws, w \in ExpDraws : StableScalar(v, w)
    \/ StableVector
    \/ \E v \in UniformDraws, w \in ExpDraws : StableDraw(v, w)
    \/ StableReturn

SpecStable == InitStable /\ [][NextStable]_vars

(* ================== FirstPassageTime / OccupationTime objects ========== *)

\* the two class templates of the functional module
QueryClasses == {"FirstPassageTime", "OccupationTime"}

\* durations handed to the OccupationTime constructor
CtorDurations == {-5, 0, 5}

\* `if (a >= b)` of both constructors
InvalidDomainStrict(d) == d[1] > d[2]
InvalidDomain(d) == d[1] >= d[2]

InitQuery ==
    /\ call = "construct"
    /\ pc = "start"
    /\ ret = "none"
    /\ variant \in QueryClasses
    /\ IdlePool /\ IdleGen /\ IdleMC /\ IdleOther
    /\ process \in [start : Positions, const : BOOLEAN]
    /\ domain \in Positions \X Positions
    /\ duration \in CtorDurations
    /\ variant = "FirstPassageTime" => duration = 0
    /\ max_duration = 0 /\ time_step = 0
    /\ t = <<>> /\ x = <<>> /\ calls = <<>> /\ finals = 0

\* either constructor: throw std::invalid_argument when a >= b
QueryThrowDomain ==
    /\ call = "construct" /\ pc = "start"
    /\ InvalidDomain(domain)
    /\ pc' = "thrown"
    /\ ret' = "std::invalid_argument"
    /\ UNCHANGED <<call, variant, poolVars, genVars, mcVars, fptVars,
                   otherVars>>

\* OccupationTime(process, domain, duration): throw when duration < 0
QueryThrowDuration ==
    /\ call = "construct" /\ pc = "start"
    /\ variant = "OccupationTime"
    /\ ~InvalidDomain(domain)
    /\ duration < 0
    /\ pc' = "thrown"
    /\ ret' = "std::invalid_argument"
    /\ UNCHANGED <<call, variant, poolVars, genVars, mcVars, fptVars,
                   otherVars>>

\* the constructor returns: the object holds the members it was given
QueryConstructed ==
    /\ call = "construct" /\ pc = "start"
    /\ ~InvalidDomain(domain)
    /\ variant = "OccupationTime" => ~(duration < 0)
    /\ pc' = "constructed"
    /\ ret' = IF variant = "OccupationTime"
              THEN [m_process |-> process, m_domain |-> domain,
                    m_duration |-> duration]
              ELSE [m_process |-> process, m_domain |-> domain]
    /\ UNCHANGED <<call, variant, poolVars, genVars, mcVars, fptVars,
                   otherVars>>

NextQuery ==
    \/ QueryThrowDomain
    \/ QueryThrowDuration
    \/ QueryConstructed

SpecQuery == (InitQuery \/ InitFPT) /\ [][NextQuery \/ NextFPT]_vars

(* ============================ parallel_sample ========================== *)
\* parallel_sample<T>(n, sampler) of random/utils.h, used by normal::rands:
\* one std::async(std::launch::async, ...) task per hardware thread, each
\* filling a local vector that the caller concatenates in task order.

\* if (num_threads == 0) num_threads = 4;
FallbackThreads == 4

\* this_block = block_size + (t < remainder ? 1 : 0)
ThisBlock(k, count, nt) ==
    (count \div nt) + (IF k < count % nt THEN 1 ELSE 0)

InitSample ==
    /\ IdleOther
    /\ call = "parallel_sample"
    /\ process = <<>> /\ domain = <<>> /\ max_duration = 0 /\ time_step = 0
    /\ duration = 0 /\ t = <<>> /\ x = <<>> /\ calls = <<>> /\ finals = 0
    /\ particles = 0 /\ partial_results = <<>> /\ success_flags = <<>>
    /\ errors = <<>> /\ written = <<>> /\ trials = 0 /\ op = "generate"
    /\ order = 1 /\ phase = "main" /\ mean = <<0, 1>>
    /\ pc = "start"
    /\ ret = "none"
    /\ variant = "async"
    /\ hw \in 0..MaxHW
    /\ n \in 0..MaxN
    /\ num_threads = 0
    /\ i = 0
    /\ threads = <<>>
    /\ joined = 0
    /\ result = <<>>

\* num_threads = hardware_concurrency(), 4 when that is 0
SampleSetup ==
    /\ call = "parallel_sample"
    /\ pc = "start"
    /\ num_threads' = IF hw = 0 THEN FallbackThreads ELSE hw
    /\ i' = 0
    /\ pc' = "spawn"
    /\ UNCHANGED <<ret, variant, hw, threads, joined, n, result>>
    /\ UNCHANGED <<call, mcVars, fptVars, otherVars>>

\* futures.push_back(std::async(std::launch::async, ...)): the task of
\* index i starts on a thread of its own with an empty local_result (tmp)
SampleSpawn ==
    /\ call = "parallel_sample"
    /\ pc = "spawn"
    /\ i < num_threads
    /\ threads' = Append(threads, Worker(i, 0, ThisBlock(i, n, num_threads)))
    /\ i' = i + 1
    /\ UNCHANGED <<pc, ret, variant, hw, num_threads, joined, n, result>>
    /\ UNCHANGED <<call, mcVars, fptVars, otherVars>>

SampleSpawnEnd ==
    /\ call = "parallel_sample"
    /\ pc = "spawn"
    /\ i >= num_threads
    /\ pc' = "get"
    /\ joined' = 0
    /\ UNCHANGED <<ret, variant, hw, num_threads, i, threads, n, result>>
    /\ UNCHANGED <<call, mcVars, fptVars, otherVars>>

\* local_result.push_back(sampler());  ++i
SampleWorkerPush(k) ==
    /\ call = "parallel_sample"
    /\ k \in 1..Len(threads)
    /\ threads[k].st = "run"
    /\ threads[k].j < threads[k].end
    /\ threads' = [threads EXCEPT ![k].j = @ + 1,
                                  ![k].tmp = Append(@, threads[k].id)]
    /\ UNCHANGED <<pc, ret, variant, hw, num_threads, i, joined, n, result>>
    /\ UNCHANGED <<call, mcVars, fptVars, otherVars>>

\* return local_result;
SampleWorkerExit(k) ==
    /\ call = "parallel_sample"
    /\ k \in 1..Len(threads)
    /\ threads[k].st = "run"
    /\ threads[k].j >= threads[k].end
    /\ threads' = [threads EXCEPT ![k].st = "done"]
    /\ UNCHANGED <<pc, ret, variant, hw, num_threads, i, joined, n, result>>
    /\ UNCHANGED <<call, mcVars, fptVars, otherVars>>

\* auto part = fut.get(); result.insert(result.end(), part...)
SampleGet ==
    /\ call = "parallel_sample"
    /\ pc = "get"
    /\ joined < Len(threads)
    /\ JoinMayReturn(threads[joined + 1])
    /\ result' = result \o threads[joined + 1].tmp
    /\ joined' = joined + 1
    /\ UNCHANGED <<pc, ret, variant, hw, num_threads, i, threads, n>>
    /\ UNCHANGED <<call, mcVars, fptVars, otherVars>>

SampleReturn ==
    /\ call = "parallel_sample"
    /\ pc = "get"
    /\ joined >= Len(threads)
    /\ pc' = "done"
    /\ ret' = result
    /\ UNCHANGED <<variant, hw, num_threads, i, threads, joined, n, result>>
    /\ UNCHANGED <<call, mcVars, fptVars, otherVars>>

NextSample ==
    \/ SampleSetup
    \/ SampleSpawn
    \/ SampleSpawnEnd
    \/ \E k \in 1..Len(threads) : SampleWorkerPush(k)
    \/ \E k \in 1..Len(threads) : SampleWorkerExit(k)
    \/ SampleGet
    \/ SampleReturn

\* every parallel generation helper
SpecGenerators == (InitGen \/ InitSample) /\ [][NextGen \/ NextSample]_vars

(* ========================== rejection sampling ========================= *)
\* BrownianExcursion::simulate (candidates are Brownian bridges from 0 to 0)
\* and BrownianMeander::simulate (candidates are Brownian paths from 0).

\* const int max_attempts = 10000;
max_attempts == 10000

RejectVariants == {"BrownianExcursion", "BrownianMeander"}
\* m_total_time, positive by construction
TotalTimes == {10, 30}
RejectDurations == {0, 10, 30}
RejectSteps == {0, 5, 10}
\* values of an interior point of a bridge
BridgeValues == {-1, 0, 1}

\* the positions of one candidate on a grid of steps intervals
Candidates(steps) ==
    IF variant = "BrownianExcursion"
    THEN {f \in [0..steps -> BridgeValues] : f[0] = 0 /\ f[steps] = 0}
    ELSE {[k \in 0..steps |-> Cumulative(j, k)] : j \in [1..steps -> Jumps]}

\* the acceptance test: the interior points of a bridge, respectively all
\* points after the first of a path, are > 0
AllPositiveLoose(positions) ==
    \A k \in DOMAIN positions : positions[k] >= 0
AllPositive(positions) ==
    \A k \in DOMAIN positions :
        (/\ k >= 1
         /\ variant = "BrownianExcursion" => k < Size(positions) - 1)
            => positions[k] > 0

\* the argument checks of both simulate functions fail
RejectArgsInvalid ==
    \/ duration <= 0
    \/ time_step <= 0
    \/ duration # process.total_time

InitReject ==
    /\ call = "simulate"
    /\ pc = "start"
    /\ ret = NotReturned
    /\ variant \in RejectVariants
    /\ IdlePool /\ IdleGen /\ IdleMC /\ IdleOther
    /\ process \in [total_time : TotalTimes]
    /\ duration \in RejectDurations
    /\ time_step \in RejectSteps
    /\ (duration > 0 /\ time_step > 0) =>
            NumSteps(duration, time_step) <= MaxSteps
    /\ domain = <<0, 0>> /\ max_duration = 0 /\ calls = <<>> /\ finals = 0
    /\ t = <<>> /\ x = <<>>

RejectInvalid ==
    /\ call = "simulate" /\ variant \in RejectVariants /\ pc = "start"
    /\ RejectArgsInvalid
    /\ pc' = "done"
    /\ ret' = Err("InvalidArgument")
    /\ UNCHANGED <<call, variant, poolVars, genVars, mcVars, fptVars,
                   otherVars>>

\* the time grid, and int attempt = 0
RejectBegin ==
    /\ call = "simulate" /\ variant \in RejectVariants /\ pc = "start"
    /\ ~RejectArgsInvalid
    /\ t' = [k \in 0..NumSteps(duration, time_step) |-> k * time_step]
    /\ attempt' = 0
    /\ pc' = "loop"
    /\ UNCHANGED <<call, ret, variant, poolVars, genVars, mcVars,
                   otherThanReject, process, domain, max_duration, time_step,
                   duration, x, calls, finals>>

\* bridge.simulate / randn fails: return Err(its error)
RejectCandidateFail ==
    /\ call = "simulate" /\ variant \in RejectVariants /\ pc = "loop"
    /\ attempt < max_attempts
    /\ pc' = "done"
    /\ ret' = Err("InvalidArgument")
    /\ UNCHANGED <<call, variant, poolVars, genVars, mcVars, fptVars,
                   otherVars>>

\* a candidate passes the test: return it
RejectAccept ==
    /\ call = "simulate" /\ variant \in RejectVariants /\ pc = "loop"
    /\ attempt < max_attempts
    /\ \E positions \in Candidates(NumSteps(duration, time_step)) :
        /\ AllPositive(positions)
        /\ x' = positions
        /\ ret' = Ok(Pair(t, positions))
    /\ pc' = "done"
    /\ UNCHANGED <<call, variant, poolVars, genVars, mcVars, otherVars,
                   process, domain, max_duration, time_step, duration, t,
                   calls, finals>>

\* a candidate fails the test: ++attempt
RejectRetry ==
    /\ call = "simulate" /\ variant \in RejectVariants /\ pc = "loop"
    /\ attempt < max_attempts
    /\ \E positions \in Candidates(NumSteps(duration, time_step)) :
        ~AllPositive(positions)
    /\ attempt' = attempt + 1
    /\ UNCHANGED <<call, pc, ret, variant, poolVars, genVars, mcVars,
                   fptVars, otherThanReject>>

\* the for loop ends: return Err(SimulationFailed)
RejectExhausted ==
    /\ call = "simulate" /\ variant \in RejectVariants /\ pc = "loop"
    /\ ~(attempt < max_attempts)
    /\ pc' = "done"
    /\ ret' = Err("SimulationFailed")
    /\ UNCHANGED <<call, variant, poolVars, genVars, mcVars, fptVars,
                   otherVars>>

NextReject ==
    \/ RejectInvalid
    \/ RejectBegin
    \/ RejectCandidateFail
    \/ RejectAccept
    \/ RejectRetry
    \/ RejectExhausted

SpecReject == InitReject /\ [][NextReject]_vars

(* ============================== properties ============================= *)
RECURSIVE SumOver(_, _, _)
\* sum of f(threads[1..cnt]) for an integer-valued f
SumOver(f(_), ths, cnt) ==
    IF cnt = 0 THEN 0 ELSE SumOver(f, ths, cnt - 1) + f(ths[cnt])
RECURSIVE LocalSums(_, _)
\* sum of the local_sum of threads[1..cnt]
LocalSums(ths, cnt) ==
    IF cnt = 0 THEN <<0, 1>>
    ELSE RatAdd(LocalSums(ths, cnt - 1), ths[cnt].local_sum)
TrialsRun(th) == th.j - th.start
RecordedErrors == {errors[m] : m \in DOMAIN errors} \ {"nullopt"}

\* C1: parallel_generate returns exactly n elements; every index in [0, n) is
\* written exactly once, the workers' ranges do not overlap and no slot is
\* written twice at any time.
C1_EverySlotWrittenOnce ==
    call = "parallel_generate" =>
        /\ \A s \in DOMAIN result : Len(result[s]) <= 1
        /\ \A a, b \in 1..Len(threads) :
              a < b => threads[a].end <= threads[b].start
        /\ pc = "done" =>
              /\ DOMAIN ret = 0..(n - 1)
              /\ \A s \in DOMAIN ret : Len(ret[s]) = 1
C1_Witness ==
    /\ call = "parallel_generate" /\ pc = "done"
    /\ n >= 3 /\ Len(threads) >= 2 /\ n % num_threads # 0

\* C2: the stores of different Monte Carlo workers touch disjoint memory
\* locations (no two workers store to the same location).
C2_DisjointWrites ==
    \A a, b \in DOMAIN written : a # b => written[a] \cap written[b] = {}

\* C3: once the call has returned, if any worker recorded a trial error the
\* estimator returned an error that some worker recorded, never an average.
C3_RecordedErrorReturned ==
    (call = "parallel_monte_carlo" /\ pc = "done" /\ RecordedErrors # {}) =>
        /\ ~ret.ok
        /\ ret.err \in RecordedErrors
C3_Witness ==
    /\ call = "parallel_monte_carlo" /\ pc = "done"
    /\ Cardinality(RecordedErrors) >= 2
    /\ ~ret.ok

\* C4: a worker whose trial failed runs no further trial, does not change its
\* local sum, never stores a partial result, and has recorded the error by
\* the time it returns.
C4_FailedWorkerStops ==
    [][\A k \in 1..Len(threads) :
          threads[k].err # "nullopt" =>
              /\ threads'[k].j = threads[k].j
              /\ threads'[k].local_sum = threads[k].local_sum
              /\ threads'[k].err = threads[k].err
              /\ partial_results'[threads[k].id] = <<0, 1>>
              /\ threads'[k].st = "done" =>
                    errors'[threads[k].id] = threads[k].err]_vars
C4_Witness ==
    /\ call = "parallel_monte_carlo" /\ pc = "done"
    /\ \E k \in 1..Len(threads) :
          /\ threads[k].err # "nullopt"
          /\ threads[k].st = "done"
          /\ threads[k].j > threads[k].start
          /\ threads[k].j + 1 < threads[k].end

\* C5: when no trial fails, the workers of one estimator call run exactly
\* `particles` trials and the call returns (sum of local sums) / particles.
C5_MeanOfAllTrials ==
    (/\ call = "parallel_monte_carlo" /\ pc = "done" /\ particles > 0
     /\ \A k \in 1..Len(threads) : threads[k].err = "nullopt") =>
        /\ SumOver(TrialsRun, threads, Len(threads)) = particles
        /\ ret = Ok(RatDivInt(LocalSums(threads, Len(threads)), particles))
C5_Witness ==
    /\ call = "parallel_monte_carlo" /\ pc = "done" /\ variant = "plain"
    /\ particles >= 3 /\ Len(threads) >= 2
    /\ particles % num_threads # 0
    /\ ret.ok /\ ret.val[1] # 0

\* C6: a parallel call produces its result (or hands the mean to the second
\* pass) only after every spawned worker has finished and been joined.
C6_ResultAfterJoinAll ==
    [][((pc' = "done" /\ pc # "done") \/ phase' # phase) =>
          /\ joined = Len(threads)
          /\ \A k \in 1..Len(threads) : threads[k].st = "done"]_vars
C6_Witness ==
    /\ pc = "done" /\ call = "parallel_generate"
    /\ Len(threads) >= 2 /\ joined = Len(threads)

\* C7: central_moment with P particles and no failing trial runs P simulations
\* for the nested mean and P more for the deviations, 2P in total.
C7_CentralMomentCost ==
    (call = "parallel_monte_carlo" /\ op = "central_moment") =>
        /\ (phase = "main" /\ pc = "start") => trials = particles
        /\ (pc = "done" /\ ret.ok) => trials = 2 * particles
C7_Witness ==
    /\ call = "parallel_monte_carlo" /\ op = "central_moment"
    /\ pc = "done" /\ ret.ok /\ particles >= 3 /\ Len(threads) >= 2
    /\ order = 2 /\ ret.val[1] # 0

\* C8: a successful first-passage query returns Some(t) with t the time mark
\* of the first sample outside (a, b), and None when no sample is outside.
C8_ReturnsExitTime ==
    (call = "fpt" /\ pc = "done" /\ ret.ok) =>
        LET f == Find(x, domain[1], domain[2])
        IN  ret.val = IF f.some THEN Some(t[f.v]) ELSE None

\* C9: once the doubled duration exceeds max_duration the search continues
\* at max_duration, makes exactly one more simulate call, at max_duration,
\* and returns None if the scan of that trajectory finds no exit.
C9_ClampThenOneFinalScan ==
    (call = "fpt" /\ variant = "generic") =>
        /\ (pc = "loop" /\ calls # <<>>) =>
              (duration <= max_duration /\ finals = 0)
        /\ pc = "final" => (duration = max_duration /\ finals = 0)
        /\ (pc = "done" /\ finals > 0) =>
              /\ finals = 1
              /\ calls[Len(calls)] = max_duration
              /\ (ret.ok /\ ~Find(x, domain[1], domain[2]).some) =>
                    ret = Ok(None)
              /\ (ret.ok /\ Find(x, domain[1], domain[2]).some) =>
                    ret.val.some
C9_Witness ==
    /\ call = "fpt" /\ variant = "generic" /\ pc = "done"
    /\ finals = 1 /\ Len(calls) >= 3
    /\ calls[Len(calls) - 1] < max_duration
    /\ ret = Ok(None)

\* C10: for a process fixed at a constant c, the query returns Some(0) after a
\* single simulation when c is outside (a, b), and None when c is strictly
\* inside (a, b).
C10_ConstantProcess ==
    (/\ call = "fpt" /\ variant = "generic" /\ pc = "done"
     /\ process.const /\ ValidFptArgs) =>
        IF domain[1] < process.start /\ process.start < domain[2]
        THEN ret = Ok(None)
        ELSE ret = Ok(Some(0)) /\ Len(calls) = 1
C10_Witness ==
    /\ call = "fpt" /\ variant = "generic" /\ pc = "done"
    /\ process.const /\ ValidFptArgs
    /\ process.start = domain[1]
    /\ ret = Ok(Some(0)) /\ Len(calls) = 1

\* the failures of the per-trajectory computations, in iteration order
TamsdFailures ==
    SelectSeq([k \in 1..Len(trajectories) |->
                    Tamsd(trajectories[k], lag_time)],
              LAMBDA r : ~r.ok)

\* C11: an aggregating operation in which a per-trajectory computation
\* failed fails with the first failure it observed; it neither skips the
\* failed item nor returns a value.
C11_NoErrorSwallowed ==
    (call = "ensemble_tamsd" /\ pc = "done" /\ Len(TamsdFailures) > 0)
        => ret = Err(TamsdFailures[1].err)

\* C12: fpt called with an invalid domain a >= b never throws; the call
\* returns a typed invalid-argument error to the caller.
C12_InvalidDomainReturnsError ==
    (call = "fpt" /\ domain[1] >= domain[2])
        => /\ pc # "thrown"
           /\ pc = "done" => ret = Err("InvalidArgument")

\* C13: fpt called with max_duration <= 0, step <= 0 or max_duration < step
\* fails with invalid-argument, and no trajectory has been simulated.
C13_FptRejectsInvalidArgs ==
    (call = "fpt" /\ pc = "done" /\ domain[1] < domain[2] /\ ~ValidFptArgs)
        => ret = Err("InvalidArgument") /\ t = <<>> /\ x = <<>>

\* index of the last mark of the simulated trajectory that is in range
LastInRange == CHOOSE k \in DOMAIN t :
                    t[k] <= duration /\ \A m \in DOMAIN t :
                                            t[m] <= duration => m <= k

\* C14: a duration-driven point-process simulate(duration) with a positive
\* duration returns the simulated marks below duration followed by one last
\* mark at exactly duration, whose value is the last in-range value.
C14_EndsExactlyAtDuration ==
    (/\ call = "simulate" /\ variant \in {"PointProcess", "CTRW"}
     /\ pc = "done" /\ duration > 0 /\ ret.ok)
        => LET r == ret.val
               last == Size(r.t) - 1
           IN  /\ Size(r.x) = Size(r.t)
               /\ r.t[last] = duration
               /\ \A k \in 0..(last - 1) :
                    r.t[k] < duration /\ r.t[k] = t[k] /\ r.x[k] = x[k]
               /\ r.x[last] = x[LastInRange]

\* a run that doubled num_step and whose first mark past duration overshoots
C14_Witness ==
    /\ call = "simulate" /\ variant = "PointProcess" /\ pc = "done"
    /\ duration = 3 /\ ret.ok
    /\ num_step = 4
    /\ t[FindIf(t, duration)] > duration
    /\ Size(ret.val.t) = 3

\* the duration, the step count or the step size of the call is <= 0
NonPositiveArgs ==
    CASE variant \in {"PointProcess", "CTRW"} -> duration <= 0
      [] variant = "BrownianMotion" -> duration <= 0 \/ time_step <= 0
      [] variant = "SimpleRandomWalk" -> num_step <= 0

\* C15: every simulate entry point called with a duration or step count
\* <= 0, or a step size <= 0, fails with invalid-argument.
C15_SimulateRejectsNonPositive ==
    (call = "simulate" /\ pc \in {"done", "crashed"} /\ NonPositiveArgs)
        => pc = "done" /\ ret = Err("InvalidArgument")

SamplesInside(from) ==
    Cardinality({k \in DOMAIN x : k >= from /\ x[k] > domain[1]
                                            /\ x[k] < domain[2]})

\* C17 as stated: occupation_time is step times the number of samples
\* strictly inside (a,b), every sample of the trajectory being counted.
C17_CountsEverySample ==
    (call = "occupation_time" /\ variant = "bm" /\ pc = "done" /\ ret.ok)
        => ret.val = time_step * SamplesInside(0)

\* C17 amended: occupation_time is step times the number of samples strictly
\* inside (a,b) among the samples after the initial one (index >= 1); the
\* sample at time 0 is not counted.
C17_CountsSamplesAfterStart ==
    (call = "occupation_time" /\ variant = "bm" /\ pc = "done" /\ ret.ok)
        => ret.val = time_step * SamplesInside(1)

\* the start lies strictly inside the domain and a later sample does too
C17_Witness ==
    /\ call = "occupation_time" /\ variant = "bm" /\ pc = "done" /\ ret.ok
    /\ x[0] > domain[1] /\ x[0] < domain[2]
    /\ Size(x) = 3
    /\ ret.val = time_step
    /\ x[2] = domain[2]

\* the first parameter outside its range, in the order alpha, beta, sigma
InvalidParameters ==
    {nm \in {"alpha", "beta", "sigma"} :
        CASE nm = "alpha" -> alpha[1] <= 0 \/ alpha[1] > 2 * alpha[2]
          [] nm = "beta"  -> beta < -1 \/ beta > 1
          [] nm = "sigma" -> sigma <= 0}

\* C18: rand_stable (scalar and vector form) called with alpha outside
\* (0,2], beta outside [-1,1] or sigma <= 0 fails with an invalid-argument
\* error naming an offending parameter; no draw is made and no worker is
\* started, at any point of the call.
C18_InvalidParametersRejected ==
    (call = "rand_stable" /\ InvalidParameters # {})
        => /\ samples = <<>> /\ sampler = "none" /\ num_threads = 0
           /\ pc \in {"start", "done"}
           /\ pc = "done" =>
                /\ ~ret.ok
                /\ ret.err.kind = "InvalidArgument"
                /\ ret.err.parameter \in InvalidParameters

\* only sigma is out of range, in a vector call that asks for draws
C18_Witness ==
    /\ call = "rand_stable" /\ variant = "vector" /\ pc = "done"
    /\ n = MaxDraws /\ hw > 0
    /\ InvalidParameters = {"sigma"}
    /\ ret = Err(InvalidParameter("sigma", 0))

\* C19: every draw of a call uses the alpha = 1 branch when alpha equals 1
\* and the general branch for every other valid alpha, however close to 1;
\* all draws of a vector call use the same branch.
C19_BranchExactlyAtOne ==
    call = "rand_stable"
        => \A k \in 1..Len(samples) :
            /\ samples[k].branch = (IF alpha = <<1, 1>> THEN "alpha1"
                                    ELSE "general")
            /\ samples[k].value =
                    (IF alpha = <<1, 1>>
                     THEN SampleAlpha1(beta, sigma, mu,
                                       samples[k].v, samples[k].w)
                     ELSE Sample(alpha, beta, sigma, mu,
                                 samples[k].v, samples[k].w))

\* a vector call with alpha just above 1 that made all its draws
C19_Witness ==
    /\ call = "rand_stable" /\ variant = "vector" /\ pc = "done"
    /\ alpha = <<11, 10>>
    /\ Len(samples) = MaxDraws
    /\ \A k \in 1..Len(samples) : samples[k].branch = "general"

\* the value stated for alpha != 1:
\*   mu + sigma * s * [sin(alpha*(v+b)) / cos(v)^(1/alpha)]
\*                  * [cos(v - alpha*(v+b)) / w]^((1-alpha)/alpha)
StatedValue(a, b, s, m, v, w) ==
    LET t2 == tan(RMul(Num(a), half_pi))
        bb == RDiv(atan(RMul(Whole(b), t2)), Num(a))
        ss == pow(RAdd(Whole(1),
                       RMul(Whole(b * b), RMul(t2, t2))),
                  RDiv(Whole(1), RMul(Whole(2), Num(a))))
        f1 == RDiv(sin(RMul(Num(a), RAdd(v, bb))),
                   pow(cos(v), RDiv(Whole(1), Num(a))))
        f2 == pow(RDiv(cos(RSub(v, RMul(Num(a), RAdd(v, bb)))), Whole(w)),
                  RDiv(RSub(Whole(1), Num(a)), Num(a)))
    IN  RAdd(Whole(m), RMul(RMul(RMul(Whole(s), ss), f1), f2))

\* C20: for alpha != 1 each draw returns the stated value for its v and w
\* (compared wherever both values are tracked exactly).
C20_GeneralBranchValue ==
    call = "rand_stable"
        => \A k \in 1..Len(samples) :
            LET d == samples[k]
                stated == StatedValue(alpha, beta, sigma, mu, d.v, d.w)
            IN  (alpha # <<1, 1>> /\ d.value.exact /\ stated.exact)
                    => d.value = stated

C22_TrajectoryWellFormed ==
    (call = "simulate" /\ pc = "done" /\ ret.ok)
        => /\ DOMAIN ret.val.t = DOMAIN ret.val.x
           /\ Size(ret.val.t) >= 1
           /\ \A k \in DOMAIN ret.val.t :
                (k + 1) \in DOMAIN ret.val.t
                    => ret.val.t[k] <= ret.val.t[k + 1]
           /\ ret.val.x[0] = process.start

\* the total count of the running parallel call
TotalCount == IF call = "parallel_generate" THEN n ELSE particles

\* the range of th is the id-th floor chunk, the last one taking the remainder
IsFloorChunk(th) ==
    LET chunk == TotalCount \div num_threads
    IN  /\ th.start = th.id * chunk
        /\ th.end = IF th.id = num_threads - 1 THEN TotalCount
                    ELSE th.start + chunk

\* the range of th is the id-th ceiling block, clipped to the total count
IsCeilBlock(th) ==
    LET block == (TotalCount + num_threads - 1) \div num_threads
    IN  /\ th.start = th.id * block
        /\ th.end = Min(th.start + block, TotalCount)

\* C23 as stated: both helpers, in every version, give worker k the range
\* [k * chunk, (k + 1) * chunk) with chunk = N / workers, the last worker's
\* range ending at N.
C23_FloorChunksEverywhere ==
    call \in {"parallel_generate", "parallel_monte_carlo"}
        => \A k \in 1..Len(threads) : IsFloorChunk(threads[k])

\* C23 amended: the module version of parallel_generate and the Result
\* version of parallel_monte_carlo partition identically into floor chunks
\* whose last range absorbs the remainder; the header version of
\* parallel_generate and the plain version of parallel_monte_carlo partition
\* identically into blocks of size ceil(N / workers) clipped to N.
C23_PartitionByVersion ==
    call \in {"parallel_generate", "parallel_monte_carlo"}
        => \A k \in 1..Len(threads) :
              IF variant \in {"chunk", "result"}
              THEN IsFloorChunk(threads[k])
              ELSE IsCeilBlock(threads[k])
C23_Witness ==
    /\ call = "parallel_monte_carlo" /\ variant = "result" /\ pc = "join"
    /\ Len(threads) >= 2 /\ particles % num_threads # 0
    /\ threads[Len(threads)].end - threads[Len(threads)].start
            > particles \div num_threads

\* a parallel generation call has finished spawning its workers
SpawningOver ==
    /\ call \in {"parallel_generate", "parallel_sample"}
    /\ pc \in {"join", "get", "done"}

\* C24: for n >= 1, once the spawn loop of a parallel generation call is
\* over, the number of workers it spawned is min(hardware parallelism, n),
\* and at least 1 (hardware parallelism 0 meaning unknown).
C24_WorkerCount ==
    (SpawningOver /\ n >= 1)
        => /\ Len(threads) = Min(IF hw = 0 THEN 1 ELSE hw, n)
           /\ Len(threads) >= 1

\* C25: a parallel generation call with n == 0 returns an empty sequence and
\* never has a worker thread.
C25_EmptyCallSpawnsNothing ==
    (call \in {"parallel_generate", "parallel_sample"} /\ n = 0)
        => /\ Len(threads) = 0
           /\ pc = "done" => ret = <<>>

\* C26: parallel_monte_carlo called with particles == 0 fails with an
\* invalid-argument error, and at no time has it set up or spawned a worker
\* or executed a trial.
C26_ZeroParticlesRejected ==
    (call = "parallel_monte_carlo" /\ particles = 0)
        => /\ pc \in {"start", "done"}
           /\ pc = "done" => ret = Err("InvalidArgument")
           /\ threads = <<>> /\ num_threads = 0 /\ trials = 0
           /\ partial_results = <<>> /\ errors = <<>>
C26_Witness ==
    /\ call = "parallel_monte_carlo" /\ particles = 0 /\ hw >= 1
    /\ pc = "done" /\ ~ret.ok

\* C27: every duration the first-passage search passes to the process's
\* simulate, the first one included, is at most max_duration.
C27_TrialDurationWithinMax ==
    call = "fpt" => \A k \in 1..Len(calls) : calls[k] <= max_duration

\* a duration-driven simulate call with a positive duration
DurationDriven ==
    /\ call = "simulate" /\ variant \in {"PointProcess", "CTRW"}
    /\ duration > 0

\* the loop is over: the last trajectory reaches duration, or the primitive
\* failed and its error was returned
LoopEnded ==
    \/ pc = "truncate" /\ Back(t) >= duration
    \/ pc = "done" /\ (IF ret.ok THEN Back(t) >= duration
                       ELSE ret.err \in TrialErrors)

C29_BoundedRejection ==
    (call = "simulate" /\ variant \in RejectVariants /\ pc # "start")
        => /\ attempt <= max_attempts
           /\ pc = "loop" => ret = NotReturned
           /\ (pc = "done" /\ ret.ok)
                => /\ attempt < max_attempts
                   /\ ret.val.x \in Candidates(NumSteps(duration, time_step))
                   /\ \A k \in DOMAIN ret.val.x :
                        (/\ k >= 1
                         /\ variant = "BrownianExcursion"
                                => k < Size(ret.val.x) - 1)
                            => ret.val.x[k] > 0
           /\ (pc = "done" /\ ~ret.ok)
                => (ret.err = "SimulationFailed" <=> attempt = max_attempts)
C29_Witness ==
    /\ call = "simulate" /\ variant = "BrownianMeander" /\ pc = "done"
    /\ ~ret.ok /\ ret.err = "SimulationFailed" /\ attempt = max_attempts

\* C30: when PointProcess::simulate truncates, the position of the first
\* timestamp >= duration is an index of the simulated trajectory, it is >= 1
\* whenever the overshoot branch copies x_[index - 1], and the call never
\* ends in an out-of-bounds access.
C30_TruncationInBounds ==
    (call = "simulate" /\ variant = "PointProcess")
        => /\ pc = "truncate"
                => /\ FindIf(t, duration) \in DOMAIN t
                   /\ t[FindIf(t, duration)] > duration
                        => FindIf(t, duration) >= 1
           /\ pc # "crashed"

====
